---- MODULE Spec2Model ----
(***************************************************************************)
(* A model of the event-processing pipeline of aiu-trace-analyzer:         *)
(* normalization (TSx overflow reconstruction), event categorization and   *)
(* the flow builders.  Every stage is a handler (event, context) -> list   *)
(* of events; a context is the state of its stage.  Each stage has its own *)
(* variables and its own specification; the variables of the other stages  *)
(* stay at their initial values.                                           *)
(*                                                                         *)
(* Numbers.  Python integers are unbounded and timestamps are floats; TLC  *)
(* has 32 bit integers.  Cycle counts are therefore counted in units of    *)
(* 2^30 cycles, so that 1 << 32 is the number 4 and -(1 << 48) is          *)
(* -(2^18).  Comparison, addition of a multiple of 2^32 and the floor      *)
(* division by 2^32 are exact in these units for counter values that are   *)
(* multiples of 2^30.  Wall-clock times are integers (ticks); a product    *)
(* time * soc_frequency is a cycle count.  Where the code divides by the   *)
(* frequency, the model keeps the value multiplied by the frequency, so    *)
(* no rounding happens in the model.                                       *)
(***************************************************************************)
EXTENDS Integers, Sequences, FiniteSets, TLC

VARIABLES
    \* NormalizationContext
    soc_frequency,      \* NormalizationContext.soc_frequency (cycle units per tick)
    ignore_crit,        \* NormalizationContext.ignore_crit
    norm_queues,        \* NormalizationContext.queues: qid -> {"0": (epoch_start, ts, cycle), job: ...}
    norm_warnings,      \* AbstractContext.warnings of the normalization context: name -> occurred
    norm_in,            \* the event handed to the last normalization handler
    norm_out,           \* the event as that handler left it
    norm_stage,         \* what the last handler did with it
    norm_first,         \* history: pid -> <<ts, TS1>> of the first TS-carrying X event phase 2 saw
    \* EventCategorizerContext.get_event_class applied to one event
    cls_event,          \* the event handed to get_event_class
    cls_stage,          \* "input" before the call, "returned" or "AssertionError" after it
    cls_flex,           \* what classify_flex returned ("None" outside the FLEX dialect)
    cls_generic,        \* what classify_event returned
    cls_result,         \* what get_event_class returned
    self_event_class,   \* the attribute event_class of the context ("unset" until written)
    \* EventCategorizerContext as a two-phase stage: event_categorizer collects,
    \* event_categorizer_update applies
    do_zero_align,      \* 1 with zero_align, 0 without (the code keeps 1.0 / 0.0)
    first_ts,           \* minimum ts of the collected events
    cat_queues,         \* batch id -> <<min, max>> of the kernel ts of the batch
    cat_phase,          \* "collect", "apply" or "AssertionError"
    cat_trace,          \* the events event_categorizer returned, in order
    cat_next,           \* index in cat_trace of the next event of the second pass
    cat_output,         \* the events event_categorizer_update returned, in order
    \* LaunchFLowContext: launch_flow_collect collects, launch_flow_create_missing and
    \* drain apply
    flow_queues,        \* flow or correlation id -> record of the id
    flow_order,         \* the ids of flow_queues in the order they were inserted
    flow_id_seq,        \* the largest id observed or handed out
    flow_phase,         \* "collect", "apply", "drained" or "AssertionError"
    flow_trace,         \* the events launch_flow_collect returned, in order
    flow_next,          \* index in flow_trace of the next event of the second pass
    flow_output,        \* the events the second pass and its drain returned, in order
    flow_warned,        \* number of warnings 'Ignoring event with ts after schedule wait'
    flow_before,        \* history: flow_queues before the last call of launch_flow_collect
    \* RCUUtilizationContext and MultiRCUUtilizationContext with one compiler log:
    \* extract_tables reads the log; compute_utilization_fingerprints collects,
    \* update_fprint_matches runs in drain, compute_utilization applies
    core_freq,          \* the core frequency, 1 / cycle_to_clock_factor
    rcuctx,             \* the RCUUtilizationContext of the log (rcuctx[0])
    ext_state,          \* extract_tables: keep_parsing, parse_mode, current_table, fprint
    ext_lines,          \* history: the lines extract_tables has read
    ext_before,         \* history: rcuctx before the last line or the last event
    util_fingerprints,  \* MultiRCUUtilizationContext.fingerprints: job -> fingerprint
    util_job_order,     \* the jobs of util_fingerprints in the order they were inserted
    util_warnings,      \* the data of the warnings of MultiRCUUtilizationContext
    util_phase,         \* "extract", "collect", "apply", "drained" or the exception raised
    util_trace,         \* the events compute_utilization_fingerprints returned, in order
    util_next,          \* index in util_trace of the next event of the second pass
    util_output,        \* the events compute_utilization returned, in order
    util_matches,       \* history: job -> matching_fprints of the last drain
    util_observed,      \* history: util_fingerprints at the end of the first pass
    \* one TraceWarning: __init__, then update
    tw_args,            \* the arguments of the constructor: text, data, update_fn
    tw_self,            \* the TraceWarning object, or the exception the constructor raised
    tw_last,            \* history: the last call of update, the object before it, its result
    \* an AbstractContext and the TraceWarning objects it owns, until teardown
    ctx_warnings,       \* AbstractContext.warnings: name -> TraceWarning
    ctx_order,          \* the names of ctx_warnings in the order they were added
    ctx_refs,           \* name -> TRUE while code outside the context refers to the warning
    ctx_alive,          \* FALSE once the context is deallocated
    ctx_hooks,          \* number of calls of AbstractContext.__del__ made by the program
    ctx_deleted,        \* the names of the warnings whose __del__ has run
    ctx_log,            \* the records logged at WARN or ERROR, in order
    \* EventSortingContext: sort collects, drain emits
    sort_ctx,           \* event_types, sortkey (parsed), global_sort
    sort_queues,        \* EventSortingContext.queues: queue id -> events
    sort_order,         \* the ids of sort_queues in the order they were inserted
    sort_in,            \* history: the events given to sort, in order
    sort_returned,      \* the events sort returned, in order
    sort_drained,       \* the events the last drain returned
    sort_phase,         \* "sort" or "drained"
    \* NormalizationContext with event filters: normalize_phase1 of one event
    event_filter,       \* NormalizationContext.event_filter: the (path, regex) items in order
    flt_in,             \* the event handed to normalize_phase1
    flt_out,            \* the events normalize_phase1 returned
    flt_raised,         \* the exception that ended the call, "" when it returned
    \* PowerStatisticsContext and the events fed to analyze_power_statistics
    power_periods,      \* PowerStatisticsContext.power_periods
    last_power_sample,  \* PowerStatisticsContext.last_power_sample
    kernel_periods,     \* PowerStatisticsContext.kernel_periods
    pwr_in,             \* the events handed to analyze_power_statistics so far
    pwr_out,            \* the events it has returned
    \* StageProfileChecker and the calls of fwd_find_stage
    sp_profile,         \* StageProfile.profile, the enabled stages in profile order
    reg_idx,            \* StageProfileChecker.reg_idx
    sp_stage,           \* the argument of the last call of fwd_find_stage
    sp_result,          \* what the last call returned
    sp_calls,           \* the number of calls so far
    \* RefinementContext and the metadata its drains have returned
    ref_queues,         \* RefinementContext.queues: DeviceRankInfo by device id
    meta_exported,      \* RefinementContext.meta_exported
    has_coll_bw,        \* RefinementContext.has_coll_bw
    ref_devices,        \* the device ids handed to exporter.add_device
    ref_in,             \* the events handed to tb_refinement_lightweight so far
    ref_out,            \* the events it has returned
    ref_meta,           \* the events returned by all drains so far
    ref_last,           \* the events returned by the last drain
    ref_drains,         \* the number of drains so far
    \* TensorBoardFileTraceExporter
    trace_events,       \* traceview.trace_events, the events exported so far
    device_data,        \* AbstractTraceExporter.device_data, the ids of the devices added
    rank_cnt,           \* TensorBoardFileTraceExporter.rank_cnt
    traceview_by_rank,  \* TensorBoardFileTraceExporter.traceview_by_rank
    exp_files,          \* the worker ids of the per-worker files written
    exp_phase,          \* "export" until flush has run
    \* the drains of the sorting context after its first
    sort_more,          \* the number of drains after the first
    sort_again          \* the events those drains returned

norm_vars == <<soc_frequency, ignore_crit, norm_queues, norm_warnings,
               norm_in, norm_out, norm_stage, norm_first>>

cls_vars == <<cls_event, cls_stage, cls_flex, cls_generic, cls_result, self_event_class>>

cat_vars == <<do_zero_align, first_ts, cat_queues, cat_phase, cat_trace, cat_next, cat_output>>

flow_vars == <<flow_queues, flow_order, flow_id_seq, flow_phase, flow_trace, flow_next,
               flow_output, flow_warned, flow_before>>

util_vars == <<core_freq, rcuctx, ext_state, ext_lines, ext_before, util_fingerprints,
               util_job_order, util_warnings, util_phase, util_trace, util_next, util_output,
               util_matches, util_observed>>

tw_vars == <<tw_args, tw_self, tw_last>>

ctx_vars == <<ctx_warnings, ctx_order, ctx_refs, ctx_alive, ctx_hooks, ctx_deleted, ctx_log>>

sort_vars == <<sort_ctx, sort_queues, sort_order, sort_in, sort_returned, sort_drained,
               sort_phase>>

flt_vars == <<event_filter, flt_in, flt_out, flt_raised>>

pwr_vars == <<power_periods, last_power_sample, kernel_periods, pwr_in, pwr_out>>

sp_vars == <<sp_profile, reg_idx, sp_stage, sp_result, sp_calls>>

ref_vars == <<ref_queues, meta_exported, has_coll_bw, ref_devices, ref_in, ref_out, ref_meta, ref_last, ref_drains>>

exp_vars == <<trace_events, device_data, rank_cnt, traceview_by_rank, exp_files, exp_phase>>

sortagain_vars == <<sort_more, sort_again>>

vars == <<norm_vars, cls_vars, cat_vars, flow_vars, util_vars, tw_vars, ctx_vars, sort_vars, flt_vars, pwr_vars, sp_vars, ref_vars, exp_vars, sortagain_vars>>

\* what the handlers of one context leave alone: the other contexts
norm_others == <<cls_vars, cat_vars, flow_vars, util_vars, tw_vars, ctx_vars, sort_vars, flt_vars, pwr_vars, sp_vars, ref_vars, exp_vars, sortagain_vars>>
cls_others == <<norm_vars, cat_vars, flow_vars, util_vars, tw_vars, ctx_vars, sort_vars, flt_vars, pwr_vars, sp_vars, ref_vars, exp_vars, sortagain_vars>>
cat_others == <<norm_vars, cls_event, cls_stage, cls_flex, cls_generic, cls_result, flow_vars,
               util_vars, tw_vars, ctx_vars, sort_vars, flt_vars, pwr_vars, sp_vars, ref_vars, exp_vars, sortagain_vars>>
flow_others == <<norm_vars, cls_vars, cat_vars, util_vars, tw_vars, ctx_vars, sort_vars, flt_vars, pwr_vars, sp_vars, ref_vars, exp_vars, sortagain_vars>>
util_others == <<norm_vars, cls_vars, cat_vars, flow_vars, tw_vars, ctx_vars, sort_vars, flt_vars, pwr_vars, sp_vars, ref_vars, exp_vars, sortagain_vars>>
tw_others == <<norm_vars, cls_vars, cat_vars, flow_vars, util_vars, ctx_vars, sort_vars, flt_vars, pwr_vars, sp_vars, ref_vars, exp_vars, sortagain_vars>>
ctx_others == <<norm_vars, cls_vars, cat_vars, flow_vars, util_vars, tw_vars, sort_vars, flt_vars, pwr_vars, sp_vars, ref_vars, exp_vars, sortagain_vars>>
sort_others == <<norm_vars, cls_vars, cat_vars, flow_vars, util_vars, tw_vars, ctx_vars, flt_vars, pwr_vars, sp_vars, ref_vars, exp_vars, sortagain_vars>>
flt_others == <<norm_vars, cls_vars, cat_vars, flow_vars, util_vars, tw_vars, ctx_vars, sort_vars, pwr_vars, sp_vars, ref_vars, exp_vars, sortagain_vars>>
pwr_others == <<norm_vars, cls_vars, cat_vars, flow_vars, util_vars, tw_vars, ctx_vars, sort_vars, flt_vars, sp_vars, ref_vars, exp_vars, sortagain_vars>>
sp_others == <<norm_vars, cls_vars, cat_vars, flow_vars, util_vars, tw_vars, ctx_vars, sort_vars, flt_vars, pwr_vars, ref_vars, exp_vars, sortagain_vars>>
ref_others == <<norm_vars, cls_vars, cat_vars, flow_vars, util_vars, tw_vars, ctx_vars, sort_vars, flt_vars, pwr_vars, sp_vars, exp_vars, sortagain_vars>>
exp_others == <<norm_vars, cls_vars, cat_vars, flow_vars, util_vars, tw_vars, ctx_vars, sort_vars, flt_vars, pwr_vars, sp_vars, ref_vars, sortagain_vars>>
sortagain_others == <<norm_vars, cls_vars, cat_vars, flow_vars, util_vars, tw_vars, ctx_vars, sort_vars, flt_vars, pwr_vars, sp_vars, ref_vars, exp_vars>>

-----------------------------------------------------------------------------
(* Bounds and program constants                                            *)

\* 1 << 32 in units of 2^30 cycles
EPOCH32 == 4
\* -(1 << 48) in units of 2^30 cycles
NEG48 == -262144

\* largest raw counter value drawn for TS1..TS5 (units of 2^30 cycles, below 1 << 32)
MaxRaw == 2
\* largest wall-clock timestamp of an input event (ticks)
MaxTs == 3

Pids == {0, 1}
SocFrequencies == {1, 2}
TSKeys == 1..5

\* The five counters of an event, all combinations of raw values
RawTuples == [TSKeys -> 0..MaxRaw]

\* The counters drawn for the two-phase runs: in order, one wrap, two wraps
TSPool == { <<0, 1, 2, 2, 2>>, <<1, 2, 0, 2, 2>>, <<2, 2, 2, 0, 1>>, <<2, 1, 0, 1, 2>> }

NoTS == <<>>

-----------------------------------------------------------------------------
(* Events of the normalization stage.  args holds TS1..TS5 (absent: NoTS), *)
(* jobhash, and the keys the handlers add: TSxOF (0: absent, otherwise the *)
(* index of the TS field) and OVC (hasOVC).                                *)

NormEvent(ph, pid, ts, dur, name, TS) ==
    [ph |-> ph, pid |-> pid, ts |-> ts, dur |-> dur, name |-> name,
     TS |-> TS, jobhash |-> 7, TSxOF |-> 0, hasOVC |-> FALSE, OVC |-> 0]

NoEvent == NormEvent("-", 0, 0, 0, "-", NoTS)

HasTS1(ev) == ev.TS # NoTS

\* Python's hash() of a small non-negative int is the int itself
queue_hash(ev) == ev.pid

\* The running values of the correction loop: c[i] is curr after field i, c[0] is prev's start
LocalCurr(TS) ==
    LET c[i \in 0..5] ==
            IF i = 0 THEN NEG48
            ELSE IF TS[i] < c[i-1] THEN TS[i] + EPOCH32 ELSE TS[i]
    IN  c

\* tsx_32bit_local_correction: the TS loop (the frequency statistics that follow
\* only feed log lines and are not part of the model)
tsx_32bit_local_correction(ev) ==
    IF ~HasTS1(ev) THEN ev
    ELSE LET c   == LocalCurr(ev.TS)
             bad == {i \in TSKeys : ev.TS[i] < c[i-1]}
             of  == IF bad = {} THEN 0
                    ELSE CHOOSE i \in bad : \A j \in bad : i <= j
         IN  [ev EXCEPT !.TS = [i \in TSKeys |-> c[i]],
                        !.TSxOF = IF ev.TSxOF # 0 THEN ev.TSxOF ELSE of]

\* normalize_phase1 with no event filter configured (filterstr = "")
normalize_phase1(ev) ==
    IF ev.ph # "X" THEN ev
    ELSE tsx_32bit_local_correction(ev)

\* get_overflow_count with the reference epoch replaced by every event
get_overflow_count_every(queues, qid, job, ts, cycle) ==
    LET epoch_start == ts * soc_frequency - cycle
        q1 == (qid :> [zero |-> <<epoch_start, ts, cycle>>, keys |-> {"0"}]) @@ queues
        time_since_epoch0 == ts * soc_frequency - q1[qid].zero[1]
        elapsed_epochs == time_since_epoch0 \div EPOCH32
    IN  <<[q1 EXCEPT ![qid].keys = @ \cup {job}], elapsed_epochs>>

\* get_overflow_count: <<queues, elapsed_epochs>>.  epoch_start is held multiplied
\* by soc_frequency; OVERFLOW_TIME_SPAN_US * soc_frequency is 1 << 32.
get_overflow_count(queues, qid, job, ts, cycle) ==
    LET epoch_start == ts * soc_frequency - cycle
        q1 == IF qid \notin DOMAIN queues
              THEN queues @@ (qid :> [zero |-> <<epoch_start, ts, cycle>>, keys |-> {"0"}])
              ELSE queues
        time_since_epoch0 == ts * soc_frequency - q1[qid].zero[1]
        elapsed_epochs == time_since_epoch0 \div EPOCH32
        q2 == IF job \notin q1[qid].keys
              THEN [q1 EXCEPT ![qid].keys = @ \cup {job}]
              ELSE q1
    IN  <<q2, elapsed_epochs>>

\* str(event["args"]["jobhash"]) for the job hashes of the model
JobKey(jobhash) == IF jobhash = 0 THEN "0" ELSE "7"

\* tsx_32bit_global_correction: [queues, ev, raised]
tsx_32bit_global_correction(queues, qid, ev) ==
    IF ~HasTS1(ev) THEN [queues |-> queues, ev |-> ev, raised |-> FALSE]
    ELSE LET r    == get_overflow_count(queues, qid, JobKey(ev.jobhash), ev.ts, ev.TS[1])
             ovc  == r[2]
             c    == [i \in TSKeys |-> ev.TS[i] + ovc * EPOCH32]
             bad  == {i \in TSKeys : c[i] < (IF i = 1 THEN NEG48 ELSE c[i-1])}
             stop == IF bad = {} THEN 6 ELSE CHOOSE i \in bad : \A j \in bad : i <= j
         IN  IF bad # {} /\ ~ignore_crit
             THEN \* assert curr >= prev fails at field stop; the fields before it are written
                  [queues |-> r[1],
                   ev |-> [ev EXCEPT !.TS = [i \in TSKeys |-> IF i < stop THEN c[i] ELSE ev.TS[i]]],
                   raised |-> TRUE]
             ELSE [queues |-> r[1],
                   ev |-> [ev EXCEPT !.TS = c, !.hasOVC = TRUE, !.OVC = ovc],
                   raised |-> FALSE]

\* normalize_phase2
normalize_phase2(queues, ev) ==
    IF ev.ph # "X" THEN [queues |-> queues, ev |-> ev, raised |-> FALSE]
    ELSE tsx_32bit_global_correction(queues, queue_hash(ev), ev)

-----------------------------------------------------------------------------
(* The normalization stage: every event passes phase 1 and then phase 2.   *)

NormPoolEvents ==
    { NormEvent("X", p, t, 1, "x", ts) : p \in Pids, t \in 0..MaxTs, ts \in TSPool \cup {NoTS} }
    \cup { NormEvent("C", p, t, 0, "Power", NoTS) : p \in Pids, t \in 0..MaxTs }

NormRawEvents ==
    { NormEvent("X", 0, 0, 1, "x", ts) : ts \in RawTuples }

NormIdle ==
    /\ soc_frequency = 1
    /\ ignore_crit = FALSE
    /\ norm_queues = [q \in {} |-> 0]
    /\ norm_warnings = [w \in {} |-> FALSE]
    /\ norm_in = NoEvent
    /\ norm_out = NoEvent
    /\ norm_stage = "idle"
    /\ norm_first = [p \in {} |-> 0]

\* normalize_phase1 applied to the next event of the stream
NormalizePhase1 ==
    /\ norm_stage \in {"idle", "phase2"}
    /\ \E ev \in NormPoolEvents :
          /\ norm_in' = ev
          /\ norm_out' = normalize_phase1(ev)
    /\ norm_stage' = "phase1"
    /\ UNCHANGED <<soc_frequency, ignore_crit, norm_queues, norm_warnings, norm_first>>
    /\ UNCHANGED norm_others

\* normalize_phase1 applied to the raw event
NormalizeRaw ==
    /\ norm_stage = "raw"
    /\ norm_out' = normalize_phase1(norm_in)
    /\ norm_stage' = "phase1"
    /\ UNCHANGED <<soc_frequency, ignore_crit, norm_queues, norm_warnings, norm_in, norm_first>>
    /\ UNCHANGED norm_others

\* normalize_phase2 applied to the event phase 1 returned
NormalizePhase2 ==
    /\ norm_stage = "phase1"
    /\ LET r == normalize_phase2(norm_queues, norm_out)
       IN  /\ norm_queues' = r.queues
           /\ norm_in' = norm_out
           /\ norm_out' = r.ev
           /\ norm_stage' = IF r.raised THEN "AssertionError" ELSE "phase2"
    /\ norm_first' = IF norm_out.ph = "X" /\ HasTS1(norm_out) /\ norm_out.pid \notin DOMAIN norm_first
                     THEN norm_first @@ (norm_out.pid :> <<norm_out.ts, norm_out.TS[1]>>)
                     ELSE norm_first
    /\ UNCHANGED <<soc_frequency, ignore_crit, norm_warnings>>
    /\ UNCHANGED norm_others

NormNext == NormalizePhase1 \/ NormalizePhase2
LocalNext == NormalizeRaw

-----------------------------------------------------------------------------
(* Event classification.  A name is the sequence of its words; a substring *)
(* test `"Wait for ACK" in name` is the test for a run of consecutive      *)
(* words.  The names of the model are built from whole words of the        *)
(* patterns, so both tests agree on them.                                  *)

Contains(name, pat) ==
    \E i \in 1..(Len(name) - Len(pat) + 1) : SubSeq(name, i, i + Len(pat) - 1) = pat

EndsWith(name, pat) ==
    Len(name) >= Len(pat) /\ SubSeq(name, Len(name) - Len(pat) + 1, Len(name)) = pat

\* a pattern that starts with a blank: the run of words is not at the start of the name
ContainsAfterBlank(name, pat) ==
    \E i \in 2..(Len(name) - Len(pat) + 1) : SubSeq(name, i, i + Len(pat) - 1) = pat

\* InputDialectFLEX._FLEX_DIALECT, the categories the categorizer asks for
FLEX_DIALECT ==
    [ NAME                  |-> "FLEX",
      acc_supernode_launch  |-> "Flex RoundTrip",
      acc_supernode_exec    |-> "Flex RoundTrip",
      acc_data_convert      |-> "is.name;Compute of (?!.*SenFusedDeviceNode).*$",
      acc_rdma_prep_sync    |-> "PrepareAndSyncRdma",
      acc_barrier           |-> "is.name;[Bb]arrier:",
      acc_datatransfer_DtoH |-> "is.name; DmaO",
      acc_datatransfer_HtoD |-> "is.name; DmaI",
      acc_compute_prep      |-> "Cmpt Prep$",
      acc_kernel            |-> "is.name;Cmpt Exec$",
      acc_event_cat         |-> "has.args.TS1",
      acc_collective        |-> "has.args.CollGroup" ]

\* InputDialectTORCH._TORCH_DIALECT, the categories the categorizer asks for
TORCH_DIALECT ==
    [ NAME                  |-> "TORCH",
      acc_supernode_launch  |-> "aiuLaunchSuperNode",
      acc_supernode_exec    |-> "aiuSuperNodeExecution",
      acc_data_convert      |-> "aiuDataConvert",
      acc_rdma_prep_sync    |-> "aiuPrepareAndSyncRdma",
      acc_barrier           |-> "is.name;[Bb]arrier:",
      acc_datatransfer_DtoH |-> "is.name;[Mm]emcpy \\(DtoH\\)",
      acc_datatransfer_HtoD |-> "is.name;[Mm]emcpy \\(HtoD\\)",
      acc_compute_prep      |-> "Cmpt Prep$",
      acc_kernel            |-> "is.cat;kernel",
      acc_event_cat         |-> "is.cat;gpu|kernel",
      acc_collective        |-> "is.name;HCOLL" ]

\* PipelineContextTool.get_dialect_of_event
get_dialect_of_event(event) ==
    IF event.dialect = "FLEX" THEN FLEX_DIALECT ELSE TORCH_DIALECT

\* The words of a plain-string predicate
PlainWords(entry) ==
    CASE entry = "Flex RoundTrip"        -> <<"Flex", "RoundTrip">>
      [] entry = "PrepareAndSyncRdma"    -> <<"PrepareAndSyncRdma">>
      [] entry = "Cmpt Prep$"            -> <<"Cmpt", "Prep$">>
      [] entry = "aiuLaunchSuperNode"    -> <<"aiuLaunchSuperNode">>
      [] entry = "aiuSuperNodeExecution" -> <<"aiuSuperNodeExecution">>
      [] entry = "aiuDataConvert"        -> <<"aiuDataConvert">>
      [] entry = "aiuPrepareAndSyncRdma" -> <<"aiuPrepareAndSyncRdma">>

\* A search of the regex of an is.<path>;<regex> predicate in the value at the path
RegexSearch(entry, event) ==
    CASE entry = "is.name;Compute of (?!.*SenFusedDeviceNode).*$" ->
            \E i \in 1..(Len(event.name) - 2) :
                /\ SubSeq(event.name, i, i + 1) = <<"Compute", "of">>
                /\ \A j \in (i + 2)..Len(event.name) : event.name[j] # "SenFusedDeviceNode"
      [] entry = "is.name;[Bb]arrier:" ->
            Contains(event.name, <<"Barrier:">>) \/ Contains(event.name, <<"barrier:">>)
      [] entry = "is.name; DmaO" -> ContainsAfterBlank(event.name, <<"DmaO">>)
      [] entry = "is.name; DmaI" -> ContainsAfterBlank(event.name, <<"DmaI">>)
      [] entry = "is.name;Cmpt Exec$" -> EndsWith(event.name, <<"Cmpt", "Exec">>)
      [] entry = "is.name;[Mm]emcpy \\(DtoH\\)" ->
            Contains(event.name, <<"Memcpy", "(DtoH)">>) \/ Contains(event.name, <<"memcpy", "(DtoH)">>)
      [] entry = "is.name;[Mm]emcpy \\(HtoD\\)" ->
            Contains(event.name, <<"Memcpy", "(HtoD)">>) \/ Contains(event.name, <<"memcpy", "(HtoD)">>)
      [] entry = "is.cat;kernel" -> event.cat = "kernel"
      [] entry = "is.cat;gpu|kernel" -> event.cat \in {"gpu", "kernel"}
      [] entry = "is.name;HCOLL" -> Contains(event.name, <<"HCOLL">>)

\* PipelineContextTool.is_category: the three forms of a dialect predicate
is_category(event, category) ==
    LET entry == get_dialect_of_event(event)[category]
    IN  CASE entry = "has.args.TS1"       -> event.hasTS1
          [] entry = "has.args.CollGroup" -> event.hasCollGroup
          [] entry \in {"Flex RoundTrip", "PrepareAndSyncRdma", "Cmpt Prep$", "aiuLaunchSuperNode",
                        "aiuSuperNodeExecution", "aiuDataConvert", "aiuPrepareAndSyncRdma"} ->
                event.name = PlainWords(entry)
          [] OTHER -> RegexSearch(entry, event)

\* EventClass, the members the classifiers return
EventClass ==
    { "OTHER", "COMPUTE_PREP", "COMPUTE_EXEC", "DATA_IN", "DATA_OUT", "SEN_DATA_CONVERT",
      "MAIU_WIREUP", "MAIU_BARRIER", "ROUNDTRIP_FLEX", "ROUNDTRIP_AIU",
      "MAIU_HDMA_PROTOCOL_WAIT_DATA", "MAIU_HDMA_PROTOCOL_WAIT_ACK",
      "MAIU_HDMA_PROTOCOL_SIGNAL_ACK", "MAIU_HDMA_PROTOCOL_SIGNAL_DATA",
      "MAIU_HDMA_PROTOCOL_MONITOR_NOTICE", "MAIU_HDMA_PROTOCOL_SEND_DATA",
      "MAIU_HDMA_PROTOCOL_RECV_DATA", "MAIU_PROTOCOL_SERIAL",
      "MAIU_P2PRDMA_PROTOCOL_SEND_DATA", "MAIU_P2PRDMA_PROTOCOL_RECV_DATA" }

\* EventCategorizerContext.is_collective_event
is_collective_event(event) == event.hasCollGroup

\* The branch `"Host DMA" in name or "HCOLL" in name` (PF mode) of classify_comm;
\* classify_flex holds the same text in lines 100-121
pf_mode_class(name, event_class) ==
    IF \/ Contains(name, <<"Wdone", "DmaI">>)
       \/ Contains(name, <<"Wait", "for", "Data", "Avail", "Notice">>)
       \/ Contains(name, <<"Wait", "for", "Notice", "(gather", "notifications)">>)
       \/ Contains(name, <<"R5", "Wait", "DATA">>)
    THEN "MAIU_HDMA_PROTOCOL_WAIT_DATA"
    ELSE IF Contains(name, <<"Wait", "for", "ACK">>) \/ Contains(name, <<"R5", "Wait", "ACK">>)
    THEN "MAIU_HDMA_PROTOCOL_WAIT_ACK"
    ELSE IF Contains(name, <<"Send", "ACK", "Instruction">>) \/ Contains(name, <<"R5", "Send", "ACK">>)
    THEN "MAIU_HDMA_PROTOCOL_SIGNAL_ACK"
    ELSE IF \/ Contains(name, <<"Send", "Instruction">>)
            \/ Contains(name, <<"HCOLL", "Signal">>)
            \/ Contains(name, <<"R5", "Send", "DATA">>)
    THEN "MAIU_HDMA_PROTOCOL_SIGNAL_DATA"
    ELSE IF \/ Contains(name, <<"Wait", "for", "Notice">>)
            \/ Contains(name, <<"Wait", "for", "Delivery", "Notice">>)
    THEN "MAIU_HDMA_PROTOCOL_MONITOR_NOTICE"
    ELSE IF event_class = "DATA_OUT" THEN "MAIU_HDMA_PROTOCOL_SEND_DATA"
    ELSE IF event_class = "DATA_IN" THEN "MAIU_HDMA_PROTOCOL_RECV_DATA"
    ELSE event_class

\* The last branch of classify_comm (neither PF mode nor DLM Wait);
\* classify_flex holds the same text in lines 127-133
p2p_mode_class(name, event_class) ==
    IF Contains(name, <<"Set", "BcList">>) \/ Contains(name, <<"Xseg", "to", "rank">>)
    THEN "MAIU_PROTOCOL_SERIAL"
    ELSE IF event_class = "DATA_OUT" THEN "MAIU_P2PRDMA_PROTOCOL_SEND_DATA"
    ELSE IF event_class = "DATA_IN" THEN "MAIU_P2PRDMA_PROTOCOL_RECV_DATA"
    ELSE event_class

\* The communication part of a classifier, for an event known to be collective:
\* the class it returns and the attribute event_class of the context
comm_class(attr, name, event_class) ==
    IF Contains(name, <<"Host", "DMA">>) \/ Contains(name, <<"HCOLL">>)
    THEN [event_class |-> pf_mode_class(name, event_class), attr |-> attr]
    ELSE IF Contains(name, <<"DLM", "Wait">>)
    THEN [event_class |-> event_class, attr |-> "MAIU_HDMA_PROTOCOL_WAIT_DATA"]
    ELSE [event_class |-> p2p_mode_class(name, event_class), attr |-> attr]

\* classify_flex
classify_flex(attr, event) ==
    IF get_dialect_of_event(event).NAME # "FLEX" THEN [event_class |-> "None", attr |-> attr]
    ELSE
    LET n  == event.name
        c1 == IF Contains(n, <<"Cmpt", "Prep">>) THEN "COMPUTE_PREP"
              ELSE IF Contains(n, <<"Cmpt", "Exec">>) THEN "COMPUTE_EXEC"
              ELSE IF Contains(n, <<"DmaI">>)
                   THEN IF Contains(n, <<"Cleanup", "Host", "DMA", "Wait", "for", "ACK">>)
                        THEN "MAIU_HDMA_PROTOCOL_WAIT_ACK" ELSE "DATA_IN"
              ELSE IF Contains(n, <<"DmaO">>) THEN "DATA_OUT"
              ELSE "OTHER"
        c2 == IF Contains(n, <<"Compute", "of">>) /\ ~Contains(n, <<"SenFusedDeviceNode">>)
              THEN "SEN_DATA_CONVERT" ELSE c1
        c3 == IF Contains(n, <<"PrepareAndSyncRdma">>) THEN "MAIU_WIREUP" ELSE c2
        c4 == IF Contains(n, <<"Barrier:">>) THEN "MAIU_BARRIER" ELSE c3
        c5 == IF Contains(n, <<"Flex", "RoundTrip">>) THEN "ROUNDTRIP_FLEX" ELSE c4
        c6 == IF Contains(n, <<"AIU", "Roundtrip">>) THEN "ROUNDTRIP_AIU" ELSE c5
    IN  IF is_collective_event(event) THEN comm_class(attr, n, c6)
        ELSE [event_class |-> c6, attr |-> attr]

\* classify_comm with the name rules applied to every collective event, whatever its name
classify_comm_ungated(attr, event, event_class) ==
    IF ~is_category(event, "acc_collective") THEN [event_class |-> event_class, attr |-> attr]
    ELSE [event_class |-> pf_mode_class(event.name, event_class), attr |-> attr]

\* classify_comm
classify_comm(attr, event, event_class) ==
    IF ~is_category(event, "acc_collective") THEN [event_class |-> event_class, attr |-> attr]
    ELSE comm_class(attr, event.name, event_class)

\* classify_event up to its call of classify_comm: the class from the dialect predicates
dialect_class(event) ==
    LET c1 == IF is_category(event, "acc_compute_prep") THEN "COMPUTE_PREP"
              ELSE IF is_category(event, "acc_kernel") THEN "COMPUTE_EXEC"
              ELSE IF is_category(event, "acc_datatransfer_HtoD") THEN "DATA_IN"
              ELSE IF is_category(event, "acc_datatransfer_DtoH") THEN "DATA_OUT"
              ELSE "OTHER"
        c2 == IF is_category(event, "acc_data_convert") THEN "SEN_DATA_CONVERT" ELSE c1
        c3 == IF is_category(event, "acc_rdma_prep_sync") THEN "MAIU_WIREUP" ELSE c2
        c4 == IF is_category(event, "acc_barrier") THEN "MAIU_BARRIER" ELSE c3
        c5 == IF is_category(event, "acc_supernode_exec") \/ is_category(event, "acc_supernode_launch")
              THEN "ROUNDTRIP_FLEX" ELSE c4
    IN  IF Contains(event.name, <<"AIU", "Roundtrip">>) THEN "ROUNDTRIP_AIU" ELSE c5

\* classify_event
classify_event(attr, event) == classify_comm(attr, event, dialect_class(event))

\* get_event_class: the classes of both classifiers, the value returned
\* ("AssertionError" when the assertion fails) and the attribute event_class
get_event_class(attr, event) ==
    IF ~event.hasName
    THEN [flex |-> "None", generic |-> "None", result |-> "OTHER", attr |-> attr]
    ELSE LET f == classify_flex(attr, event)
             g == classify_event(f.attr, event)
         IN  [flex |-> f.event_class, generic |-> g.event_class,
              result |-> IF f.event_class # "None" /\ f.event_class # g.event_class
                         THEN "AssertionError" ELSE g.event_class,
              attr |-> g.attr]

-----------------------------------------------------------------------------
(* One call of get_event_class on an event of either dialect.              *)

ClassifyNames ==
    { <<"Cmpt", "Exec", "add_0">>, <<"add_0", "Cmpt", "Exec">>, <<"add_0", "Cmpt", "Prep">>,
      <<"Cmpt", "Prep$">>, <<"add_0", "DmaI">>, <<"add_0", "DmaO">>, <<"DmaI">>,
      <<"Compute", "of", "add_0">>, <<"Compute", "of", "SenFusedDeviceNode">>,
      <<"PrepareAndSyncRdma">>, <<"Barrier:", "add_0">>, <<"Flex", "RoundTrip">>,
      <<"AIU", "Roundtrip">>, <<"add_0">>,
      <<"Host", "DMA", "add_0", "DmaI">>, <<"Host", "DMA", "add_0", "DmaO">>,
      <<"Host", "DMA", "Wdone", "DmaI">>, <<"Host", "DMA", "Wait", "for", "Data", "Avail", "Notice">>,
      <<"Host", "DMA", "Wait", "for", "Notice", "(gather", "notifications)">>,
      <<"Host", "DMA", "R5", "Wait", "DATA">>, <<"Cleanup", "Host", "DMA", "Wait", "for", "ACK">>,
      <<"Cleanup", "Host", "DMA", "Wait", "for", "ACK", "DmaI">>,
      <<"Host", "DMA", "R5", "Wait", "ACK">>, <<"Host", "DMA", "Send", "ACK", "Instruction">>,
      <<"Host", "DMA", "R5", "Send", "ACK">>, <<"Host", "DMA", "Send", "Instruction">>,
      <<"HCOLL", "Signal", "data">>, <<"Host", "DMA", "R5", "Send", "DATA">>,
      <<"Host", "DMA", "Wait", "for", "Notice">>, <<"Host", "DMA", "Wait", "for", "Delivery", "Notice">>,
      <<"Host", "DMA", "Wait", "for", "ACK", "R5", "Wait", "DATA">>,
      <<"HCOLL", "Signal", "Wait", "for", "Notice">>,
      <<"Host", "DMA", "Send", "ACK", "Instruction", "Wait", "for", "ACK">>,
      <<"Wait", "for", "ACK">>, <<"R5", "Send", "DATA">>, <<"DLM", "Wait", "add_0", "DmaI">>,
      <<"Set", "BcList">>, <<"Xseg", "to", "rank", "add_0", "DmaO">>,
      <<"aiuDataConvert">>, <<"Memcpy", "(HtoD)">>, <<"Memcpy", "(DtoH)">>,
      <<"HCOLL", "Memcpy", "(DtoH)">>, <<"aiuLaunchSuperNode">> }

ClassifyEvent(hasName, name, dialect, hasTS1, hasCollGroup, cat) ==
    [hasName |-> hasName, name |-> name, dialect |-> dialect, hasTS1 |-> hasTS1,
     hasCollGroup |-> hasCollGroup, cat |-> cat]

ClassifyEvents ==
    { ClassifyEvent(TRUE, n, "FLEX", t, c, "none") : n \in ClassifyNames, t \in BOOLEAN, c \in BOOLEAN }
    \cup { ClassifyEvent(TRUE, n, "TORCH", FALSE, FALSE, k) : n \in ClassifyNames, k \in {"kernel", "cpu_op"} }
    \cup { ClassifyEvent(FALSE, <<>>, "FLEX", FALSE, FALSE, "none") }

ClsIdle ==
    /\ cls_event = ClassifyEvent(FALSE, <<>>, "FLEX", FALSE, FALSE, "none")
    /\ cls_stage = "idle"
    /\ cls_flex = "None"
    /\ cls_generic = "None"
    /\ cls_result = "None"
    /\ self_event_class = "unset"

\* get_event_class applied to the event
GetEventClass ==
    /\ cls_stage = "input"
    /\ LET r == get_event_class(self_event_class, cls_event)
       IN  /\ cls_flex' = r.flex
           /\ cls_generic' = r.generic
           /\ cls_result' = r.result
           /\ self_event_class' = r.attr
           /\ cls_stage' = IF r.result = "AssertionError" THEN "AssertionError" ELSE "returned"
    /\ UNCHANGED cls_event
    /\ UNCHANGED cls_others

ClassifyNext == GetEventClass

-----------------------------------------------------------------------------
(* The categorizer as a two-phase stage.  The first pass hands every event *)
(* to event_categorizer; after the barrier the second pass hands the       *)
(* events of the first pass, in the same order, to                         *)
(* event_categorizer_update.                                               *)

\* the longest trace of the model
MaxTrace == 3
\* the largest ts of an event of the trace
MaxCatTs == 3
\* stands for 1.e99: larger than every ts of the model
HUGE_TS == 1000000
CatBatches == {1, 2}

Min2(a, b) == IF a <= b THEN a ELSE b
Max2(a, b) == IF a >= b THEN a ELSE b

\* src is history: the index in cat_trace of the event an output event was made from
CatEvent(ph, name, ts, batch, hasTS1, bw) ==
    [ph |-> ph, hasName |-> TRUE, name |-> name, dialect |-> "FLEX", hasTS1 |-> hasTS1,
     hasCollGroup |-> FALSE, cat |-> "none", ts |-> ts, dur |-> 1, batch |-> batch,
     bw |-> bw, class |-> "absent", src |-> 0]

CatEvents ==
    { CatEvent("X", <<"add_0", "Cmpt", "Exec">>, t, b, TRUE, 0) : t \in 0..MaxCatTs, b \in CatBatches }
    \cup { CatEvent("X", <<"add_0", "DmaI">>, t, b, TRUE, 0) : t \in 0..MaxCatTs, b \in CatBatches }
    \cup { CatEvent("X", <<"add_0", "DmaO">>, t, b, TRUE, 0) : t \in 0..MaxCatTs, b \in CatBatches }
    \cup { CatEvent("X", <<"add_0", "DmaI">>, t, 1, TRUE, 2) : t \in 0..MaxCatTs }
    \cup { CatEvent("X", <<"add_0", "DmaI">>, t, 1, FALSE, 0) : t \in 0..MaxCatTs }
    \cup { CatEvent("C", <<"Power">>, t, 1, FALSE, 0) : t \in 0..MaxCatTs }

\* PipelineContextTool.is_acc_event
is_acc_event(event) == is_category(event, "acc_event_cat")

\* PipelineContextTool.is_acc_kernel
is_acc_kernel(event) == is_category(event, "acc_kernel")

\* PipelineContextTool.get_context_id: the batch of the event
get_context_id(event) == event.batch

\* collect_stats: first_ts and queues after the call
collect_stats(fts, queues, event) ==
    LET batch_id == get_context_id(event)
        q0 == IF batch_id \in DOMAIN queues THEN queues
              ELSE queues @@ (batch_id :> <<HUGE_TS, -HUGE_TS>>)
    IN  [first_ts |-> Min2(fts, event.ts),
         queues |-> IF is_acc_kernel(event)
                    THEN [q0 EXCEPT ![batch_id] = <<Min2(@[1], event.ts), Max2(@[2], event.ts)>>]
                    ELSE queues]

\* second_pass_classify
second_pass_classify(queues, event) ==
    IF ~is_acc_event(event) THEN event.class
    ELSE IF get_context_id(event) \notin DOMAIN queues THEN event.class
    ELSE LET first_comp == queues[get_context_id(event)][1]
             last_comp  == queues[get_context_id(event)][2]
         IN  IF event.ts > first_comp /\ event.ts < last_comp
             THEN IF event.class = "DATA_OUT" THEN "MAIU_PROTOCOL_SEND_DATA"
                  ELSE IF event.class = "DATA_IN" THEN "MAIU_PROTOCOL_RECV_DATA"
                  ELSE event.class
             ELSE event.class

\* apply_stats: the ts is moved first, the second classification reads the moved ts
apply_stats(fts, zero_align, queues, event) ==
    LET moved == IF fts <= event.ts THEN [event EXCEPT !.ts = @ - fts * zero_align] ELSE event
    IN  IF moved.class # "absent" THEN [moved EXCEPT !.class = second_pass_classify(queues, moved)]
        ELSE moved

TransferBW(ts, value) ==
    [ph |-> "C", hasName |-> TRUE, name |-> <<"TransferBW">>, dialect |-> "FLEX", hasTS1 |-> FALSE,
     hasCollGroup |-> FALSE, cat |-> "none", ts |-> ts, dur |-> 0, batch |-> 0,
     bw |-> value, class |-> "absent", src |-> 0]

\* EventCategorizerContext._transfer_classes
transfer_classes == {"DATA_IN", "DATA_OUT", "MAIU_PROTOCOL_RECV_DATA", "MAIU_PROTOCOL_SEND_DATA"}

\* enhanced_events
enhanced_events(event) ==
    IF event.class = "absent" THEN <<event>>
    ELSE IF event.class \in transfer_classes /\ event.bw > 0
         THEN <<event, TransferBW(event.ts, event.bw), TransferBW(event.ts + event.dur, 0)>>
    ELSE <<event>>

\* event_categorizer_update
event_categorizer_update(fts, zero_align, queues, event) ==
    IF event.ph # "X" THEN <<event>>
    ELSE enhanced_events(apply_stats(fts, zero_align, queues, event))

CatIdle ==
    /\ do_zero_align = 0
    /\ first_ts = HUGE_TS
    /\ cat_queues = [b \in {} |-> <<0, 0>>]
    /\ cat_phase = "idle"
    /\ cat_trace = <<>>
    /\ cat_next = 1
    /\ cat_output = <<>>

\* event_categorizer applied to the next event of the first pass
CatCollect ==
    /\ cat_phase = "collect"
    /\ Len(cat_trace) < MaxTrace
    /\ \E ev \in CatEvents :
          LET e == [ev EXCEPT !.src = Len(cat_trace) + 1]
              st == collect_stats(first_ts, cat_queues, e)
              r == get_event_class(self_event_class, e)
          IN  IF e.ph # "X"
              THEN /\ cat_trace' = Append(cat_trace, e)
                   /\ UNCHANGED <<first_ts, cat_queues, cat_phase, self_event_class>>
              ELSE /\ first_ts' = st.first_ts
                   /\ cat_queues' = st.queues
                   /\ self_event_class' = r.attr
                   /\ cat_phase' = IF r.result = "AssertionError" THEN "AssertionError" ELSE cat_phase
                   /\ cat_trace' = IF r.result = "AssertionError" THEN cat_trace
                                   ELSE Append(cat_trace, [e EXCEPT !.class = r.result])
    /\ UNCHANGED <<do_zero_align, cat_next, cat_output>>
    /\ UNCHANGED cat_others

\* The barrier: the drain of the first pass moves the context to the apply phase
CatBarrier ==
    /\ cat_phase = "collect"
    /\ cat_phase' = "apply"
    /\ UNCHANGED <<do_zero_align, first_ts, cat_queues, cat_trace, cat_next, cat_output, self_event_class>>
    /\ UNCHANGED cat_others

\* event_categorizer_update applied to the next event of the second pass
CatApply ==
    /\ cat_phase = "apply"
    /\ cat_next <= Len(cat_trace)
    /\ cat_output' = cat_output \o event_categorizer_update(first_ts, do_zero_align, cat_queues,
                                                            cat_trace[cat_next])
    /\ cat_next' = cat_next + 1
    /\ UNCHANGED <<do_zero_align, first_ts, cat_queues, cat_phase, cat_trace, self_event_class>>
    /\ UNCHANGED cat_others

CatNext == CatCollect \/ CatBarrier \/ CatApply

-----------------------------------------------------------------------------
(* Launch flows.  Times are ticks of 0.001 us, the amount update_last_ts   *)
(* subtracts from the end of a kernel.  All events have pid 0.             *)

\* the largest flow id and correlation id of the trace
MaxId == 2
\* the largest ts of an event of the trace
MaxFlowTs == 3
\* the longest trace
MaxFlowTrace == 3
\* 0.001 us in ticks
TS_EPS == 1

\* corr = -1: no args.correlation; id = 0 on events that are not flow events;
\* synth marks the flow events the context creates
FlowEvent(ph, name, cat, ts, dur, tid, id, corr) ==
    [ph |-> ph, name |-> name, cat |-> cat, ts |-> ts, dur |-> dur, tid |-> tid, id |-> id,
     corr |-> corr, bp |-> "", synth |-> FALSE]

NoFlowEvent == FlowEvent("-", "-", "-", 0, 0, 0, 0, -1)

FlowEvents ==
    { FlowEvent("s", "ac2g", "ac2g", t, 0, 1, i, -1) : t \in 0..MaxFlowTs, i \in 1..MaxId }
    \cup { FlowEvent("f", "ac2g", "ac2g", MaxFlowTs, 0, 2, i, -1) : i \in 1..MaxId }
    \cup { FlowEvent("X", "aiuLaunchControlBlocks", "cpu_op", 0, 1, 1, 0, c) : c \in 0..1 }
    \cup { FlowEvent("X", "aiuScheduleWait", "cpu_op", t, 2, 1, 0, c) : t \in 0..1, c \in 1..MaxId }
    \cup { FlowEvent("X", "add_0", "kernel", t, d, 2, 0, c) :
              t \in 0..MaxFlowTs, d \in {0, 2}, c \in 1..MaxId }
    \cup { FlowEvent("X", "add_0", "kernel", 0, 2, 2, 0, 0),
           FlowEvent("X", "add_0", "kernel", 0, 2, 2, 0, -1),
           FlowEvent("X", "aiuMalloc", "cpu_op", 0, 2, 1, 0, 1) }

\* LaunchFLowContext.launch_pattern.search(name)
launch_pattern(name) == name \in {"aiuLaunchControlBlocks", "LaunchControlBlock"}

\* the default record collect_launchflow_ids hands to get_or_create
FlowRecord(event) ==
    [last_ts |-> event.ts, last_tid |-> event.tid, src |-> NoFlowEvent, launch |-> NoFlowEvent,
     schedwait |-> NoFlowEvent, last_event |-> NoFlowEvent]

\* get_or_create: the queues and their order after the call
get_or_create(queues, order, id, default) ==
    IF id \in DOMAIN queues THEN [queues |-> queues, order |-> order]
    ELSE [queues |-> queues @@ (id :> default), order |-> Append(order, id)]

\* max_flow_id_detection
max_flow_id_detection(seq, observed_id) == Max2(seq, observed_id)

\* update_last_ts: the record of qid after the call, whether the warning was logged and
\* whether the assertion held
update_last_ts(q, event) ==
    LET last_ts == event.ts + event.dur - TS_EPS
        sched_wait_end == IF q.schedwait # NoFlowEvent THEN q.schedwait.ts + q.schedwait.dur
                          ELSE last_ts
        take == last_ts <= sched_wait_end /\ last_ts > q.last_ts
        q1 == IF take THEN [q EXCEPT !.last_ts = last_ts, !.last_tid = event.tid, !.last_event = event]
              ELSE q
    IN  [q |-> q1, warned |-> ~take, asserted |-> q1.last_ts <= sched_wait_end]

\* collect_launchflow_ids: queues, order and flow_id_seq after the call, the number of
\* warnings it logged and whether it raised the AssertionError
collect_launchflow_ids(queues, order, seq, event) ==
    LET same == [queues |-> queues, order |-> order, seq |-> seq, warned |-> 0, raised |-> FALSE]
    IN  IF event.ph = "s"
        THEN LET g == get_or_create(queues, order, event.id, FlowRecord(event))
             IN  [same EXCEPT !.queues = [g.queues EXCEPT ![event.id].src = event], !.order = g.order]
        ELSE IF event.ph # "X" \/ event.corr = -1 THEN same
        ELSE IF launch_pattern(event.name)
        THEN LET g == get_or_create(queues, order, event.corr, FlowRecord(event))
             IN  IF event.corr = 0 THEN [same EXCEPT !.queues = g.queues, !.order = g.order]
                 ELSE [same EXCEPT !.queues = [g.queues EXCEPT ![event.corr].launch = event],
                                   !.order = g.order,
                                   !.seq = max_flow_id_detection(seq, event.corr)]
        ELSE IF event.name = "aiuScheduleWait"
        THEN LET g == get_or_create(queues, order, event.corr, FlowRecord(event))
             IN  IF event.corr = 0 THEN [same EXCEPT !.queues = g.queues, !.order = g.order]
                 ELSE [same EXCEPT !.queues = [g.queues EXCEPT ![event.corr].schedwait = event],
                                   !.order = g.order,
                                   !.seq = max_flow_id_detection(seq, event.corr)]
        ELSE IF event.corr = 0 \/ event.cat # "kernel" THEN same
        ELSE LET g == get_or_create(queues, order, event.corr, FlowRecord(event))
                 u == update_last_ts(g.queues[event.corr], event)
             IN  [queues |-> [g.queues EXCEPT ![event.corr] = u.q],
                  order |-> g.order,
                  seq |-> max_flow_id_detection(seq, event.corr),
                  warned |-> IF u.warned THEN 1 ELSE 0,
                  raised |-> ~u.asserted]

\* has_required_data
has_required_data(event) == event.ph = "X" /\ event.cat = "kernel" /\ event.corr # -1

\* a flow event of the context
SynthFlow(ph, like, ts, tid, id) ==
    [ph |-> ph, name |-> like.name, cat |-> like.cat, ts |-> ts, dur |-> 0, tid |-> tid, id |-> id,
     corr |-> -1, bp |-> IF ph = "f" THEN "e" ELSE "", synth |-> TRUE]

\* create_missing with the finish placed at the launcher instead of at the kernel
create_missing_at_launcher(queues, seq, event) ==
    IF ~has_required_data(event) THEN [flows |-> <<>>, seq |-> seq]
    ELSE IF event.corr \notin DOMAIN queues THEN [flows |-> <<>>, seq |-> seq]
    ELSE IF queues[event.corr].src = NoFlowEvent THEN [flows |-> <<>>, seq |-> seq]
    ELSE LET launcher == queues[event.corr].src
         IN  [flows |-> << SynthFlow("s", launcher, launcher.ts, launcher.tid, seq + 1),
                           SynthFlow("f", launcher, launcher.ts, launcher.tid, seq + 1) >>,
              seq |-> seq + 1]

\* create_missing: the flow events it returns and flow_id_seq after the call
create_missing(queues, seq, event) ==
    IF ~has_required_data(event) THEN [flows |-> <<>>, seq |-> seq]
    ELSE IF event.corr \notin DOMAIN queues THEN [flows |-> <<>>, seq |-> seq]
    ELSE IF queues[event.corr].src = NoFlowEvent THEN [flows |-> <<>>, seq |-> seq]
    ELSE LET launcher == queues[event.corr].src
             new_flow_id == seq + 1
         IN  [flows |-> << SynthFlow("s", launcher, launcher.ts, launcher.tid, new_flow_id),
                           SynthFlow("f", launcher, event.ts, event.tid, new_flow_id) >>,
              seq |-> new_flow_id]

\* the loop of drain in the apply phase over the ids of order, from index i
RECURSIVE drain_flows(_, _, _, _)
drain_flows(queues, order, i, seq) ==
    IF i > Len(order) THEN [flows |-> <<>>, seq |-> seq]
    ELSE LET qdata == queues[order[i]]
         IN  IF qdata.src = NoFlowEvent \/ qdata.schedwait = NoFlowEvent
             THEN drain_flows(queues, order, i + 1, seq)
             ELSE LET new_flow_id == seq + 1
                      rest == drain_flows(queues, order, i + 1, new_flow_id)
                  IN  [flows |-> << SynthFlow("s", qdata.src, qdata.last_ts, qdata.last_tid, new_flow_id),
                                    SynthFlow("f", qdata.src, qdata.schedwait.ts + qdata.schedwait.dur,
                                              qdata.schedwait.tid, new_flow_id) >> \o rest.flows,
                       seq |-> rest.seq]

FlowIdle ==
    /\ flow_queues = [i \in {} |-> NoFlowEvent]
    /\ flow_order = <<>>
    /\ flow_id_seq = 0
    /\ flow_phase = "idle"
    /\ flow_trace = <<>>
    /\ flow_next = 1
    /\ flow_output = <<>>
    /\ flow_warned = 0
    /\ flow_before = [i \in {} |-> NoFlowEvent]

\* launch_flow_collect applied to the next event of the first pass
FlowCollect ==
    /\ flow_phase = "collect"
    /\ Len(flow_trace) < MaxFlowTrace
    /\ \E event \in FlowEvents :
          LET r == collect_launchflow_ids(flow_queues, flow_order, flow_id_seq, event)
          IN  /\ flow_queues' = r.queues
              /\ flow_order' = r.order
              /\ flow_id_seq' = r.seq
              /\ flow_warned' = flow_warned + r.warned
              /\ flow_phase' = IF r.raised THEN "AssertionError" ELSE flow_phase
              /\ flow_trace' = Append(flow_trace, event)
    /\ flow_before' = flow_queues
    /\ UNCHANGED <<flow_next, flow_output>>
    /\ UNCHANGED flow_others

\* The barrier: the drain of the first pass moves the context to the apply phase
FlowBarrier ==
    /\ flow_phase = "collect"
    /\ flow_phase' = "apply"
    /\ UNCHANGED <<flow_queues, flow_order, flow_id_seq, flow_trace, flow_next, flow_output,
                   flow_warned, flow_before>>
    /\ UNCHANGED flow_others

\* launch_flow_create_missing applied to the next event of the second pass
FlowCreateMissing ==
    /\ flow_phase = "apply"
    /\ flow_next <= Len(flow_trace)
    /\ LET r == create_missing(flow_queues, flow_id_seq, flow_trace[flow_next])
       IN  /\ flow_output' = flow_output \o <<flow_trace[flow_next]>> \o r.flows
           /\ flow_id_seq' = r.seq
    /\ flow_next' = flow_next + 1
    /\ UNCHANGED <<flow_queues, flow_order, flow_phase, flow_trace, flow_warned, flow_before>>
    /\ UNCHANGED flow_others

\* drain in the apply phase, after the last event of the second pass
FlowDrain ==
    /\ flow_phase = "apply"
    /\ flow_next > Len(flow_trace)
    /\ LET r == drain_flows(flow_queues, flow_order, 1, flow_id_seq)
       IN  /\ flow_output' = flow_output \o r.flows
           /\ flow_id_seq' = r.seq
    /\ flow_phase' = "drained"
    /\ UNCHANGED <<flow_queues, flow_order, flow_trace, flow_next, flow_warned, flow_before>>
    /\ UNCHANGED flow_others

FlowNext == FlowCollect \/ FlowBarrier \/ FlowCreateMissing \/ FlowDrain

-----------------------------------------------------------------------------
(* The utilization engine.  A compiler log is a sequence of lines; a line  *)
(* is given by the pattern of _process_table_line that matches it and, for *)
(* a data line, by its columns.  Kernel names are word sequences.  Times   *)
(* of this stage are kept multiplied by core_freq (they are cycle counts), *)
(* so that cycles * cycle_to_clock_factor is the cycle count itself and    *)
(* an observed duration dur is dur * core_freq.  A similarity or a         *)
(* utilization is a fraction [num, den] of integers.                       *)

\* the core frequencies of the model, in cycles per tick
CoreFreqs == {1, 2}

\* _table_data_limit
table_data_limit == 500
\* _default_fprint_len
default_fprint_len == 30

\* the decimal digits of a number below 100, as str() gives them
Str(n) ==
    LET d == <<"0", "1", "2", "3", "4", "5", "6", "7", "8", "9">>
    IN  IF n < 10 THEN <<d[n + 1]>> ELSE <<d[(n \div 10) + 1], d[(n % 10) + 1]>>

\* hash() of a kernel name.  Python draws the hash of a string per process; the model
\* fixes one assignment, in which the digits of one hash end with those of another.
hash_str(data) ==
    CASE data = <<"add_0", "Cmpt", "Exec">> -> 2
      [] data = <<"mul_0", "Cmpt", "Exec">> -> 12
      [] OTHER -> 7

\* RCUTableFingerprint.__init__ and reset
RCUTableFingerprint(datalimit, table_mode) ==
    [fprint_data |-> <<>>, dataitems |-> 0, totaltime |-> 0,
     datalimit |-> IF datalimit > 0 THEN datalimit ELSE 2147483647, table_mode |-> table_mode]

\* RCUTableFingerprint._data_conversion
data_conversion(data) == hash_str(data) % 65535

\* RCUTableFingerprint.add; the event filter '^.*' matches every name
fprint_add(fp, data, time) ==
    [fp EXCEPT !.fprint_data = IF fp.dataitems < fp.datalimit
                               THEN @ \o Str(data_conversion(data)) \o <<"_">> ELSE @,
               !.dataitems = @ + 1,
               !.totaltime = @ + time]

\* RCUTableFingerprint.get: the hash of fprint_data + str(totaltime), taken as injective
fprint_get(fp) == <<fp.fprint_data, fp.totaltime>>

\* a fraction
Frac(num, den) == [err |-> "", num |-> num, den |-> den]
ZeroDivisionError == [err |-> "ZeroDivisionError", num |-> 0, den |-> 1]
FracLess(a, b) == a.num * b.den < b.num * a.den
FracEq(a, b) == a.num * b.den = b.num * a.den

\* similarity as a plain weighted sum, a term being 0 where the code leaves the function
similarity_weighted_sum(self, other) ==
    LET seq2 == IF Contains(other.fprint_data, self.fprint_data) THEN 2 ELSE 1
        cnt == IF self.dataitems > other.dataitems THEN 0 ELSE 2 * self.dataitems * self.totaltime
        tim == IF other.totaltime > self.totaltime THEN 0 ELSE 2 * other.totaltime * other.dataitems
    IN  IF self.dataitems <= other.dataitems /\ other.dataitems = 0 THEN ZeroDivisionError
        ELSE IF other.totaltime <= self.totaltime /\ self.totaltime = 0 THEN ZeroDivisionError
        ELSE Frac(seq2 * other.dataitems * self.totaltime + cnt + tim,
                  4 * other.dataitems * self.totaltime)

\* RCUTableFingerprint.similarity, self the fingerprint of an event stream and other
\* the fingerprint of a table; each weight is 1/2
similarity(self, other) ==
    LET seq2 == IF Contains(other.fprint_data, self.fprint_data) THEN 2 ELSE 1
    IN  IF self.dataitems > other.dataitems THEN Frac(0, 1)
        ELSE IF other.dataitems = 0 THEN ZeroDivisionError
        ELSE IF other.totaltime > self.totaltime THEN Frac(0, 1)
        ELSE IF self.totaltime = 0 THEN ZeroDivisionError
        ELSE Frac(seq2 * other.dataitems * self.totaltime
                     + 2 * self.dataitems * self.totaltime
                     + 2 * other.totaltime * other.dataitems,
                  4 * other.dataitems * self.totaltime)

\* the key 0 at which kernel_cat_map holds the map of the table being read
TempKey == <<<<"0">>, 0>>

\* RCUKernelCategoryMap.__init__
RCUKernelCategoryMap == (<<"other">> :> "other")

\* RCUTableParseMode.get_phase
get_phase(parse_mode) ==
    IF "UNKNOWN" \notin parse_mode
    THEN (IF "PREFILL" \in parse_mode THEN "TTFT" ELSE "ITL")
    ELSE "UNKN"

\* RCUTableParseMode.update
parse_mode_update(parse_mode, phase_str) ==
    IF phase_str = "PREFILL" THEN (parse_mode \cup {"PREFILL"}) \ {"UNKNOWN"}
    ELSE IF phase_str = "DECODING" THEN (parse_mode \ {"PREFILL"}) \ {"UNKNOWN"}
    ELSE (parse_mode \ {"PREFILL"}) \cup {"UNKNOWN"}

\* RCUUtilizationContext.initialize_tables and the fields __init__ sets; fp_order is
\* the insertion order of the dictionary fingerprints, kernel_other the count of the
\* warning of that name (-1: the warning has not occurred)
NoTable == [k \in {} |-> 0]
NoRows == [c \in {} |-> <<0, 0, 0>>]
initialize_tables ==
    [kernel_cycles |-> [k \in {} |-> NoTable],
     fingerprints |-> [k \in {} |-> RCUTableFingerprint(0, "UNKN")],
     fp_order |-> <<>>,
     kernel_cat_map |-> [k \in {} |-> RCUKernelCategoryMap],
     categories |-> [k \in {} |-> NoRows],
     multi_table |-> -1,
     autopilot |-> FALSE,
     kernel_other |-> 0]

\* RCUUtilizationContext._start_init_table
start_init_table(ctx, table_mode) ==
    [ctx |-> [ctx EXCEPT !.multi_table = @ + 1,
                         !.kernel_cat_map = (TempKey :> RCUKernelCategoryMap) @@ @],
     current_table |-> NoTable,
     fprint |-> RCUTableFingerprint(table_data_limit, table_mode)]

\* RCUUtilizationContext._finish_add_table
finish_add_table(ctx, fprint, table) ==
    LET fprint_key == fprint_get(fprint)
        rest == [k \in DOMAIN ctx.kernel_cat_map \ {TempKey} |-> ctx.kernel_cat_map[k]]
    IN  [ctx EXCEPT !.fingerprints = (fprint_key :> fprint) @@ @,
                    !.fp_order = IF fprint_key \in DOMAIN ctx.fingerprints THEN @
                                 ELSE Append(@, fprint_key),
                    !.kernel_cycles = (fprint_key :> table) @@ @,
                    !.kernel_cat_map = (fprint_key :> ctx.kernel_cat_map[TempKey]) @@ rest]

\* RCUUtilizationContext._handle_category
handle_category(kernel_and_cat) ==
    IF Len(kernel_and_cat) > 1
    THEN (IF kernel_and_cat[2] = "-opCat" THEN kernel_and_cat[Len(kernel_and_cat)]
          ELSE "NotAvailable")
    ELSE "Total"

\* _non_kernel_names
non_kernel_names == {"Total"}

\* A line of a compiler log.  kind is the first pattern of _process_table_line the
\* line matches ("other": none); a data line has the name of its first column, as
\* _category_splitter splits it, its cycles, and whether _ignore_pattern matches it.
Line(kind, phase, kernel_and_cat, cycles, ignored) ==
    [kind |-> kind, phase |-> phase, kernel_and_cat |-> kernel_and_cat, cycles |-> cycles,
     ignored |-> ignored]

\* the state of the loop of extract_tables
ParseState(keep_parsing, parse_mode, current_table, fprint) ==
    [keep_parsing |-> keep_parsing, parse_mode |-> parse_mode, current_table |-> current_table,
     fprint |-> fprint]

\* no fingerprint (None)
NoFprint == RCUTableFingerprint(0, "None")

\* RCUUtilizationContext._process_table_line: the context and the state of the loop
\* after the line
process_table_line(ctx, st, line) ==
    LET same == [ctx |-> ctx, st |-> st]
    IN  IF line.kind = "autopilot"
        THEN [ctx |-> [ctx EXCEPT !.autopilot = TRUE], st |-> [st EXCEPT !.keep_parsing = FALSE]]
        ELSE IF line.kind = "clock_scaling" THEN same
        ELSE IF line.kind = "iteration_mode"
        THEN [ctx |-> ctx, st |-> [st EXCEPT !.parse_mode = parse_mode_update(@, line.phase)]]
        ELSE IF line.kind = "start"
        THEN LET parse_mode == st.parse_mode \cup {"ACTIVE_TABLE"}
                 t == start_init_table(ctx, get_phase(parse_mode))
             IN  [ctx |-> t.ctx, st |-> ParseState(TRUE, parse_mode, t.current_table, t.fprint)]
        ELSE IF "ACTIVE_TABLE" \notin st.parse_mode THEN same
        ELSE IF line.kind = "end"
        THEN [ctx |-> finish_add_table(ctx, st.fprint, st.current_table),
              st |-> [st EXCEPT !.parse_mode = @ \ {"ACTIVE_TABLE"}]]
        ELSE IF line.kind # "data" \/ line.ignored THEN same
        ELSE IF line.kernel_and_cat[1] \in non_kernel_names THEN same
        ELSE LET category == handle_category(line.kernel_and_cat)
                 kernel == <<line.kernel_and_cat[1], "Cmpt", "Exec">>
                 cat_map == ctx.kernel_cat_map[TempKey]
             IN  [ctx |-> [ctx EXCEPT !.kernel_cat_map[TempKey] =
                              IF kernel \notin DOMAIN cat_map THEN cat_map @@ (kernel :> category)
                              ELSE cat_map],
                  st |-> [st EXCEPT !.fprint = fprint_add(@, kernel, line.cycles),
                                    !.current_table =
                                        IF kernel \notin DOMAIN @ /\ line.cycles # 0
                                        THEN @ @@ (kernel :> line.cycles) ELSE @]]

\* RCUUtilizationContext.extract_tables: the loop over the lines of the log from line i
RECURSIVE extract_lines(_, _, _, _)
extract_lines(ctx, st, log, i) ==
    IF i > Len(log) \/ ~st.keep_parsing THEN ctx
    ELSE LET r == process_table_line(ctx, st, log[i])
         IN  extract_lines(r.ctx, r.st, log, i + 1)

\* the state of the loop of extract_tables before the first line
ParseStart == ParseState(TRUE, {"UNKNOWN"}, NoTable, NoFprint)

extract_tables(ctx, compiler_log) ==
    extract_lines([ctx EXCEPT !.multi_table = -1], ParseStart, compiler_log, 1)

\* the longest trace of the utilization stage
MaxUtilTrace == 2
\* the largest duration of a kernel event
MaxDur == 2

NoFrac == [err |-> "None", num |-> 0, den |-> 1]

\* An event of the utilization stage.  corr and fn_idx are -1 when args has no such
\* key; hasCat tells whether the event has a "cat"; value is the "Percent" of a counter
\* and hasDur whether it has a "dur"; pt_active is NoFrac when args has no such key.
UtilEvent(ph, name, hasTS1, hasCat, dur, pid, jobhash, fn_idx) ==
    [ph |-> ph, hasName |-> TRUE, name |-> name, dialect |-> "FLEX", hasTS1 |-> hasTS1,
     hasCollGroup |-> FALSE, hasCat |-> hasCat, cat |-> IF hasCat THEN "kernel" ELSE "none",
     ts |-> 1, dur |-> dur, hasDur |-> TRUE, pid |-> pid, jobhash |-> jobhash, corr |-> -1,
     fn_idx |-> fn_idx, pt_active |-> NoFrac, user_cat |-> "", core_used |-> FALSE,
     value |-> NoFrac]

UtilEvents ==
    { UtilEvent("X", <<k, "Cmpt", "Exec">>, TRUE, FALSE, d, 0, j, -1) :
          k \in {"add_0", "mul_0"}, d \in 0..MaxDur, j \in {1, 2} }
    \cup { UtilEvent("X", <<"add_0", "Cmpt", "Exec">>, TRUE, TRUE, 1, 1, 1, -1),
           UtilEvent("X", <<"add_[N]", "Cmpt", "Exec">>, TRUE, FALSE, 1, 0, 1, 0),
           UtilEvent("X", <<"sub_0", "Cmpt", "Exec">>, TRUE, FALSE, 1, 0, 1, -1),
           UtilEvent("X", <<"add_0", "DmaI">>, TRUE, FALSE, 1, 0, 1, -1),
           UtilEvent("X", <<"add_0", "Cmpt", "Exec">>, FALSE, FALSE, 1, 0, 1, -1),
           UtilEvent("C", <<"Power">>, FALSE, FALSE, 0, 0, 1, -1) }

\* _name_converter.sub(str(fn_idx), name, count=1) on the first word of a name
name_converter_sub(fn_idx, word) ==
    IF word = "add_[N]" /\ fn_idx = 0 THEN "add_0" ELSE word

\* MultiRCUUtilizationContext.extract_kernel_from_event_name
extract_kernel_from_event_name(event) ==
    LET rname == IF event.name[1] = "add_[N]" /\ event.fn_idx # -1
                 THEN <<name_converter_sub(event.fn_idx, event.name[1])>> \o Tail(event.name)
                 ELSE event.name
    IN  IF EndsWith(rname, <<"Cmpt", "Exec">>) THEN rname ELSE rname \o <<"Cmpt", "Exec">>

\* MultiRCUUtilizationContext.generate_fprint_jobhash
generate_fprint_jobhash(event) ==
    IF event.corr # -1 THEN event.jobhash + event.corr ELSE event.jobhash

\* MultiRCUUtilizationContext.fingerprint_add: fingerprints and their order after the call
fingerprint_add(fingerprints, order, job, kernel, time) ==
    LET fp == IF job \in DOMAIN fingerprints THEN fingerprints[job]
              ELSE RCUTableFingerprint(default_fprint_len, "UNKN")
    IN  [fingerprints |-> (job :> fprint_add(fp, kernel, time)) @@ fingerprints,
         order |-> IF job \in DOMAIN fingerprints THEN order ELSE Append(order, job)]

\* compute_utilization_fingerprints: what it does to the context
compute_utilization_fingerprints(fingerprints, order, freq, event) ==
    IF event.ph # "X" THEN [fingerprints |-> fingerprints, order |-> order]
    ELSE IF is_acc_event(event) /\ is_acc_kernel(event)
    THEN fingerprint_add(fingerprints, order, generate_fprint_jobhash(event),
                         extract_kernel_from_event_name(event), event.dur * freq)
    ELSE [fingerprints |-> fingerprints, order |-> order]

\* list.sort(key=similarity, reverse=True) of a list of pairs <<key, similarity>>: an
\* insertion that keeps the order of pairs of equal similarity
RECURSIVE sort_reverse(_)
sort_reverse(l) ==
    IF Len(l) <= 1 THEN l
    ELSE LET rest == sort_reverse(Tail(l))
             x == Head(l)
             before == { i \in 0..Len(rest) : \A j \in 1..i : FracLess(x[2], rest[j][2]) }
             n == CHOOSE i \in before : \A j \in before : j <= i
         IN  SubSeq(rest, 1, n) \o <<x>> \o SubSeq(rest, n + 1, Len(rest))

\* _similarity_tolerance is 0.2: isclose(a, b, abs_tol=0.2)
isclose_tolerance(a, b) ==
    LET d == a.num * b.den - b.num * a.den
        ad == IF d < 0 THEN -d ELSE d
    IN  5 * ad <= a.den * b.den

\* similar < 0.8
below_08(similar) == 5 * similar.num < 4 * similar.den

\* the warnings of MultiRCUUtilizationContext.__init__, none of which has occurred
UtilWarnings ==
    [util_100 |-> 0, kernel_nomatch |-> 0, uncertain_match |-> [count |-> 0, joblist |-> {}]]

\* the body of the loop of update_fprint_matches for one job: the list of matches, the
\* fingerprint of the job and the warnings after it, and whether similarity raised
match_job(ctx, fingerprints, warnings, job) ==
    LET event_fprint == fingerprints[job]
        matching_fprints ==
            [i \in 1..Len(ctx.fp_order) |->
                <<ctx.fp_order[i], similarity(event_fprint, ctx.fingerprints[ctx.fp_order[i]])>>]
        raised == \E i \in 1..Len(matching_fprints) : matching_fprints[i][2].err # ""
        sorted == sort_reverse(matching_fprints)
        similar == sorted[1][2]
        warn(entry) == [warnings EXCEPT !.uncertain_match.count = @ + 1,
                                        !.uncertain_match.joblist = @ \cup {entry}]
    IN  IF raised
        THEN [matches |-> matching_fprints, fprint |-> event_fprint, warnings |-> warnings,
              raised |-> TRUE]
        ELSE IF Len(matching_fprints) = 0
        THEN [matches |-> matching_fprints, fprint |-> event_fprint, warnings |-> warnings,
              raised |-> FALSE]
        ELSE [matches |-> sorted,
              fprint |-> ctx.fingerprints[sorted[1][1]],
              warnings |-> IF below_08(similar) THEN warn(<<job, "similar">>)
                           ELSE IF Len(sorted) > 1 /\ isclose_tolerance(similar, sorted[2][2])
                           THEN warn(<<job, "mm">>)
                           ELSE warnings,
              raised |-> FALSE]

\* MultiRCUUtilizationContext.update_fprint_matches: the loop over the jobs of order
\* from index i; it ends at the first job whose similarity raises
RECURSIVE update_fprint_matches(_, _, _, _, _, _)
update_fprint_matches(ctx, fingerprints, order, warnings, matches, i) ==
    IF i > Len(order)
    THEN [fingerprints |-> fingerprints, warnings |-> warnings, matches |-> matches,
          raised |-> FALSE]
    ELSE LET job == order[i]
             r == match_job(ctx, fingerprints, warnings, job)
         IN  IF r.raised
             THEN [fingerprints |-> fingerprints, warnings |-> warnings,
                   matches |-> (job :> r.matches) @@ matches, raised |-> TRUE]
             ELSE update_fprint_matches(ctx, (job :> r.fprint) @@ fingerprints, order,
                                        r.warnings, (job :> r.matches) @@ matches, i + 1)

\* RCUUtilizationContext.get_cycles
get_cycles(ctx, kernel, fprint) ==
    IF DOMAIN ctx.kernel_cycles # {}
    THEN (IF kernel \in DOMAIN ctx.kernel_cycles[fprint] THEN ctx.kernel_cycles[fprint][kernel]
          ELSE 0)
    ELSE 0

\* hash(fprint + pid), taken as injective
cat_hash_of(fprint, pid) == <<fprint, pid>>

\* RCUUtilizationContext.set_categories_for_pid: categories after the call
set_categories_for_pid(ctx, pid, fprint) ==
    LET cat_hash == cat_hash_of(fprint, pid)
        cats == { ctx.kernel_cat_map[fprint][k] : k \in DOMAIN ctx.kernel_cat_map[fprint] }
    IN  IF cat_hash \in DOMAIN ctx.categories THEN ctx.categories
        ELSE (cat_hash :> [c \in {"Total", "StcdpHbm"} \cup cats |-> <<0, 0, 0>>])
             @@ ctx.categories

\* RCUUtilizationContext.accumulate_categories: the context after the call and the
\* category it returns; a fingerprint that is no key of kernel_cat_map raises KeyError
accumulate_categories(ctx, pid, kernel, ideal_dur, duration, fprint) ==
    IF fprint \notin DOMAIN ctx.kernel_cat_map
    THEN [ctx |-> ctx, cat |-> "", raised |-> TRUE]
    ELSE LET known == kernel \in DOMAIN ctx.kernel_cat_map[fprint]
             cat_hash == cat_hash_of(fprint, pid)
             cat == ctx.kernel_cat_map[fprint][IF known THEN kernel ELSE <<"other">>]
             c0 == set_categories_for_pid(ctx, pid, fprint)
             c1 == [c0 EXCEPT ![cat_hash][cat] =
                       <<@[1] + duration, @[2] + ideal_dur, @[3] + 1>>]
             c2 == [c1 EXCEPT ![cat_hash]["Total"] =
                       <<@[1] + duration, @[2] + ideal_dur, @[3] + 1>>]
         IN  [ctx |-> [ctx EXCEPT !.categories = c2,
                                  !.kernel_other = IF known THEN @ ELSE @ + 1],
              cat |-> cat, raised |-> FALSE]

\* RCU_pt_util_counter_name
RCU_pt_util_counter_name == <<"PT", "Active">>

\* a counter of make_utilization_event
UtilCounter(event, ts, utilization, hasDur) ==
    [UtilEvent("C", RCU_pt_util_counter_name, FALSE, FALSE, IF hasDur THEN event.dur ELSE 0,
               event.pid, 0, -1)
     EXCEPT !.ts = ts, !.hasDur = hasDur, !.value = utilization]

\* MultiRCUUtilizationContext.make_utilization_event
make_utilization_event(event, utilization) ==
    <<UtilCounter(event, event.ts, utilization, TRUE)>>
    \o (IF utilization.num > 0 THEN <<UtilCounter(event, event.ts + event.dur, Frac(0, 1), FALSE)>>
        ELSE <<>>)

\* the quotient the wrong way round
utilization_ratio_inverse(ideal_dur, cmpt_dur) ==
    IF ideal_dur # 0 THEN Frac(cmpt_dur, ideal_dur) ELSE Frac(0, 1)

\* abs(ideal_dur/cmpt_dur) if not isclose(cmpt_dur, 0.0, abs_tol=1e-9) else 0.0
utilization_ratio(ideal_dur, cmpt_dur) ==
    IF cmpt_dur # 0 THEN Frac(ideal_dur, cmpt_dur) ELSE Frac(0, 1)

\* compute_utilization: the events it returns, the context of the log and the warnings
\* after the call, and the exception it raised.  Every job has a fingerprint after the
\* first pass, and with one log every fingerprint of a job is a key of kernel_cycles
\* when there is a table, so that neither KeyError that the function catches is raised.
compute_utilization(ctx, fingerprints, warnings, freq, event) ==
    LET same == [events |-> <<event>>, ctx |-> ctx, warnings |-> warnings, raised |-> ""]
    IN  IF event.ph # "X" THEN same
        ELSE IF ~(is_acc_event(event) /\ is_acc_kernel(event)) THEN same
        ELSE LET pid == event.pid
                 kernel_name == extract_kernel_from_event_name(event)
                 jobhash == generate_fprint_jobhash(event)
                 job_fingerprint == fprint_get(fingerprints[jobhash])
                 ideal_dur == get_cycles(ctx, kernel_name, job_fingerprint)
                 cmpt_dur == event.dur * freq
                 ratio == utilization_ratio(ideal_dur, cmpt_dur)
                 over == ratio.num > ratio.den
                 utilization == IF over THEN Frac(1, 1) ELSE ratio
                 a == accumulate_categories(ctx, pid, kernel_name, ideal_dur, cmpt_dur,
                                            job_fingerprint)
                 e1 == [event EXCEPT !.core_used = ratio.num > 0,
                                     !.user_cat = IF event.hasCat THEN a.cat ELSE @,
                                     !.cat = IF event.hasCat THEN @ ELSE a.cat,
                                     !.hasCat = TRUE,
                                     !.pt_active = IF utilization.num > 0 THEN utilization ELSE @]
             IN  IF a.raised
                 THEN [events |-> <<>>, ctx |-> ctx,
                       warnings |-> [warnings EXCEPT !.util_100 = IF over THEN @ + 1 ELSE @],
                       raised |-> "KeyError"]
                 ELSE [events |-> <<e1>> \o make_utilization_event(
                                      e1, Frac(100 * utilization.num, utilization.den)),
                       ctx |-> a.ctx,
                       warnings |-> [warnings EXCEPT !.util_100 = IF over THEN @ + 1 ELSE @],
                       raised |-> ""]

\* the longest compiler log
MaxLines == 4

Lines ==
    { Line(k, "", <<>>, 0, FALSE) : k \in {"autopilot", "clock_scaling", "start", "end", "other"} }
    \cup { Line("iteration_mode", p, <<>>, 0, FALSE) : p \in {"PREFILL", "DECODING"} }
    \cup { Line("data", "", <<"add_0", "-opCat", "Mm">>, c, FALSE) : c \in {0, 2, 4} }
    \cup { Line("data", "", <<"mul_0", "-NA", "">>, 2, FALSE),
           Line("data", "", <<"add_0">>, 2, FALSE),
           Line("data", "", <<"Total">>, 6, FALSE),
           Line("data", "", <<"add_0", "-opCat", "Mm">>, 2, TRUE) }

\* the compiler logs of the utilization stage: no table; a table with categories; two
\* tables, the first with a kernel without category; an empty table; a table whose
\* only kernel has no cycles
CompilerLogs ==
    LET start == Line("start", "", <<>>, 0, FALSE)
        end == Line("end", "", <<>>, 0, FALSE)
        mode(p) == Line("iteration_mode", p, <<>>, 0, FALSE)
        row(k, c) == Line("data", "", k, c, FALSE)
    IN  { <<>>,
          <<start, row(<<"add_0", "-opCat", "Mm">>, 4), row(<<"mul_0", "-NA", "">>, 2), end>>,
          <<mode("PREFILL"), start, row(<<"add_0">>, 2), end,
            mode("DECODING"), start, row(<<"add_0", "-opCat", "Mm">>, 2),
            row(<<"mul_0", "-opCat", "Mm">>, 2), end>>,
          <<start, end>>,
          <<start, row(<<"add_0", "-opCat", "Mm">>, 0), end>> }

UtilIdle ==
    /\ core_freq = 1
    /\ rcuctx = initialize_tables
    /\ ext_state = ParseStart
    /\ ext_lines = <<>>
    /\ ext_before = initialize_tables
    /\ util_fingerprints = [j \in {} |-> NoFprint]
    /\ util_job_order = <<>>
    /\ util_warnings = UtilWarnings
    /\ util_phase = "idle"
    /\ util_trace = <<>>
    /\ util_next = 1
    /\ util_output = <<>>
    /\ util_matches = [j \in {} |-> <<>>]
    /\ util_observed = [j \in {} |-> NoFprint]

\* one turn of the loop of extract_tables: the next line of the log
ExtractLine ==
    /\ util_phase = "extract"
    /\ ext_state.keep_parsing
    /\ Len(ext_lines) < MaxLines
    /\ \E line \in Lines :
          LET r == process_table_line(rcuctx, ext_state, line)
          IN  /\ rcuctx' = r.ctx
              /\ ext_state' = r.st
              /\ ext_lines' = Append(ext_lines, line)
    /\ ext_before' = rcuctx
    /\ UNCHANGED <<core_freq, util_fingerprints, util_job_order, util_warnings, util_phase,
                   util_trace, util_next, util_output, util_matches, util_observed>>
    /\ UNCHANGED util_others

ExtractNext == ExtractLine

\* compute_utilization_fingerprints applied to the next event of the first pass
UtilCollect ==
    /\ util_phase = "collect"
    /\ Len(util_trace) < MaxUtilTrace
    /\ \E event \in UtilEvents :
          LET r == compute_utilization_fingerprints(util_fingerprints, util_job_order,
                                                    core_freq, event)
          IN  /\ util_fingerprints' = r.fingerprints
              /\ util_job_order' = r.order
              /\ util_trace' = Append(util_trace, event)
    /\ UNCHANGED <<core_freq, rcuctx, ext_state, ext_lines, ext_before, util_warnings,
                   util_phase, util_next, util_output, util_matches, util_observed>>
    /\ UNCHANGED util_others

\* The barrier: drain of the first pass runs update_fprint_matches and the context
\* moves to the apply phase
UtilBarrier ==
    /\ util_phase = "collect"
    /\ LET r == update_fprint_matches(rcuctx, util_fingerprints, util_job_order, util_warnings,
                                      [j \in {} |-> <<>>], 1)
       IN  /\ util_fingerprints' = r.fingerprints
           /\ util_warnings' = r.warnings
           /\ util_matches' = r.matches
           /\ util_phase' = IF r.raised THEN "ZeroDivisionError" ELSE "apply"
    /\ util_observed' = util_fingerprints
    /\ UNCHANGED <<core_freq, rcuctx, ext_state, ext_lines, ext_before, util_job_order,
                   util_trace, util_next, util_output>>
    /\ UNCHANGED util_others

\* compute_utilization applied to the next event of the second pass
UtilApply ==
    /\ util_phase = "apply"
    /\ util_next <= Len(util_trace)
    /\ LET r == compute_utilization(rcuctx, util_fingerprints, util_warnings, core_freq,
                                    util_trace[util_next])
       IN  /\ util_output' = util_output \o r.events
           /\ rcuctx' = r.ctx
           /\ util_warnings' = r.warnings
           /\ util_phase' = IF r.raised = "" THEN util_phase ELSE r.raised
    /\ util_next' = util_next + 1
    /\ ext_before' = rcuctx
    /\ UNCHANGED <<core_freq, ext_state, ext_lines, util_fingerprints, util_job_order,
                   util_trace, util_matches, util_observed>>
    /\ UNCHANGED util_others

\* drain of the second pass: update_fprint_matches runs again, now on the fingerprints
\* the first drain assigned
UtilDrain ==
    /\ util_phase = "apply"
    /\ util_next > Len(util_trace)
    /\ LET r == update_fprint_matches(rcuctx, util_fingerprints, util_job_order, util_warnings,
                                      [j \in {} |-> <<>>], 1)
       IN  /\ util_fingerprints' = r.fingerprints
           /\ util_warnings' = r.warnings
           /\ util_matches' = r.matches
           /\ util_phase' = IF r.raised THEN "ZeroDivisionError at the last drain" ELSE "drained"
    /\ UNCHANGED <<core_freq, rcuctx, ext_state, ext_lines, ext_before, util_job_order,
                   util_trace, util_next, util_output, util_observed>>
    /\ UNCHANGED util_others

UtilNext == UtilCollect \/ UtilBarrier \/ UtilApply \/ UtilDrain

(***************************************************************************)
(* TraceWarning (types.py): a template with {d[key]} placeholders, a data  *)
(* dictionary and one reducer per key.  A value is kept with its python    *)
(* type; a set is kept as the bit mask of its members.                     *)
(***************************************************************************)
IntOf(n) == [type |-> "int", v |-> n]
FloatOf(n) == [type |-> "float", v |-> n]
SetOf(m) == [type |-> "set", v |-> m]
NotImplemented == [type |-> "NotImplemented", v |-> 0]

\* the members of a set kept as a bit mask, and the mask of a set of members
Members(m) == { b \in {1, 2} : (m \div b) % 2 = 1 }
Mask(S) == (IF 1 \in S THEN 1 ELSE 0) + (IF 2 \in S THEN 2 ELSE 0)

IsNumber(a) == a.type \in {"int", "float"}

\* int.__add__(a, b): a descriptor of int, so a must be an int; NotImplemented when b is
\* no int
int_add(a, b) ==
    IF a.type # "int" THEN [raised |-> "TypeError", value |-> a]
    ELSE IF b.type # "int" THEN [raised |-> "", value |-> NotImplemented]
    ELSE [raised |-> "", value |-> IntOf(a.v + b.v)]

\* max(a, b): b if b > a else a; '>' is numeric on numbers and proper superset on sets
builtin_max(a, b) ==
    IF IsNumber(a) /\ IsNumber(b)
    THEN [raised |-> "", value |-> IF b.v > a.v THEN b ELSE a]
    ELSE IF a.type = "set" /\ b.type = "set"
    THEN [raised |-> "",
          value |-> IF Members(a.v) \subseteq Members(b.v) /\ a.v # b.v THEN b ELSE a]
    ELSE [raised |-> "TypeError", value |-> a]

\* set.union(a, b): a descriptor of set, so a must be a set; b must be iterable
set_union(a, b) ==
    IF a.type = "set" /\ b.type = "set"
    THEN [raised |-> "", value |-> SetOf(Mask(Members(a.v) \cup Members(b.v)))]
    ELSE [raised |-> "TypeError", value |-> a]

\* the call self.update_fn[k](stored, new) of update
call_update_fn(fn, a, b) ==
    CASE fn = "int.__add__" -> int_add(a, b)
      [] fn = "max" -> builtin_max(a, b)
      [] OTHER -> set_union(a, b)

\* a template is a sequence of words and placeholders; re.findall(r"{d\[([.\w]+)\]}", text)
\* gives the keys of the placeholders in the order they occur, repeated ones included
Word(w) == <<"word", w>>
Placeholder(k) == <<"d", k>>
RECURSIVE findall_placeholders(_)
findall_placeholders(text) ==
    IF text = <<>> THEN <<>>
    ELSE (IF Head(text)[1] = "d" THEN <<Head(text)[2]>> ELSE <<>>)
         \o findall_placeholders(Tail(text))

SeqRange(s) == { s[i] : i \in 1..Len(s) }

\* the keys without reducer get int.__add__ (_check_text_keys, _check_data_keys)
with_default_fn(update_fn, keys) ==
    [k \in (DOMAIN update_fn) \cup keys |->
        IF k \in DOMAIN update_fn THEN update_fn[k] ELSE "int.__add__"]

\* _check_update_fn_keys accepts every reducer key
check_update_fn_keys_never(self, text_keys) == FALSE

\* _check_update_fn_keys raises KeyError
check_update_fn_keys_raises(self, text_keys) ==
    \E k \in DOMAIN self.update_fn : k \notin SeqRange(text_keys) \/ k \notin DOMAIN self.args_list

\* _check_text_keys raises KeyError
check_text_keys_raises(self, text_keys) ==
    \E k \in SeqRange(text_keys) : k \notin DOMAIN self.args_list

\* _check_data_keys raises KeyError
check_data_keys_raises(self, text_keys) ==
    \E k \in DOMAIN self.args_list : k \notin SeqRange(text_keys)

\* TraceWarning.__init__; raised names the exception that ends it, "" when it returns
TraceWarning(name, text, data, update_fn, auto_log, is_error) ==
    LET self == [raised |-> "", occurred |-> FALSE, name |-> name, text |-> text,
                 args_list |-> data, update_fn |-> update_fn, auto_log |-> auto_log,
                 warn_level |-> IF is_error THEN "ERROR" ELSE "WARN"]
        text_keys == findall_placeholders(text)
    IN  IF Len(text_keys) # Cardinality(DOMAIN self.args_list)
        THEN [self EXCEPT !.raised = "ValueError"]
        ELSE IF check_update_fn_keys_raises(self, text_keys)
        THEN [self EXCEPT !.raised = "KeyError"]
        ELSE IF check_text_keys_raises(self, text_keys)
        THEN [self EXCEPT !.raised = "KeyError"]
        ELSE IF check_data_keys_raises(self, text_keys)
        THEN [self EXCEPT !.raised = "KeyError",
                          !.update_fn = with_default_fn(update_fn, SeqRange(text_keys))]
        ELSE [self EXCEPT !.update_fn =
                 with_default_fn(with_default_fn(update_fn, SeqRange(text_keys)),
                                 DOMAIN self.args_list)]

has_warning(self) == self.occurred

\* the loop of update over data.items(), from item i on
RECURSIVE update_items(_, _, _, _)
update_items(self, data, i, items_changed) ==
    IF i > Len(data)
    THEN [self |-> [self EXCEPT !.occurred = self.occurred \/ items_changed > 0],
          result |-> items_changed, raised |-> ""]
    ELSE LET k == data[i][1]
             v == data[i][2]
         IN  IF k \notin DOMAIN self.args_list
             THEN [self |-> self, result |-> 0, raised |-> "KeyError"]
             ELSE LET r == call_update_fn(self.update_fn[k], self.args_list[k], v)
                  IN  IF r.raised # ""
                      THEN [self |-> self, result |-> 0, raised |-> r.raised]
                      ELSE update_items([self EXCEPT !.args_list[k] = r.value],
                                        data, i + 1, items_changed + 1)

\* update that marks the warning as occurred whatever it changed
update_marking(self, data) ==
    LET r == update_items(self, data, 1, 0)
    IN  [r EXCEPT !.self.occurred = TRUE]

\* TraceWarning.update(data); data is the dictionary as the sequence of its items
update(self, data) == update_items(self, data, 1, 0)

\* TraceWarning.__del__: the records it logs
TraceWarning_del(self) ==
    IF self.auto_log /\ has_warning(self)
    THEN <<[level |-> self.warn_level, name |-> self.name]>>
    ELSE <<>>

\* the largest number the model lets a stored value reach
MaxCount == 2

\* the templates, data dictionaries and reducers the constructor is given
Texts ==
    { <<Word("A")>>,
      <<Word("A"), Placeholder("count")>>,
      <<Placeholder("max"), Word("A")>>,
      <<Placeholder("count"), Word("and"), Placeholder("max")>>,
      <<Placeholder("count"), Word("and"), Placeholder("count")>>,
      <<Placeholder("count"), Placeholder("joblist")>> }

NoDict == [k \in {} |-> 0]
Datas ==
    { NoDict,
      [count |-> IntOf(0)],
      [max |-> FloatOf(0)],
      [max |-> IntOf(0)],
      [count |-> IntOf(0), max |-> FloatOf(0)],
      [count |-> IntOf(0), max |-> IntOf(0)],
      [count |-> IntOf(0), joblist |-> SetOf(0)] }

UpdateFns ==
    { NoDict,
      [count |-> "int.__add__"],
      [max |-> "max"],
      [count |-> "int.__add__", max |-> "max"],
      [count |-> "max"],
      [joblist |-> "set.union"],
      [count |-> "int.__add__", joblist |-> "set.union"] }

\* the dictionaries update is called with, as the sequences of their items
Updates ==
    { <<>>,
      <<<<"count", IntOf(1)>>>>,
      <<<<"count", FloatOf(1)>>>>,
      <<<<"max", FloatOf(2)>>>>,
      <<<<"max", IntOf(1)>>>>,
      <<<<"count", IntOf(1)>>, <<"max", FloatOf(1)>>>>,
      <<<<"joblist", SetOf(1)>>>>,
      <<<<"joblist", SetOf(2)>>, <<"count", IntOf(1)>>>>,
      <<<<"count", IntOf(1)>>, <<"b1", IntOf(1)>>>>,
      <<<<"max", IntOf(2)>>, <<"count", IntOf(1)>>>> }

\* no object yet
NoWarning ==
    [raised |-> "unbuilt", occurred |-> FALSE, name |-> "", text |-> <<>>, args_list |-> NoDict,
     update_fn |-> NoDict, auto_log |-> TRUE, warn_level |-> "WARN"]
NoArgs == [text |-> <<>>, data |-> NoDict, update_fn |-> NoDict]
NoCall == [call |-> "none", data |-> <<>>, before |-> NoWarning, result |-> 0, raised |-> ""]

WarnIdle ==
    /\ tw_args = NoArgs
    /\ tw_self = NoWarning
    /\ tw_last = NoCall

\* TraceWarning(name="pytest", text, data, update_fn)
Construct ==
    /\ tw_self.raised = "unbuilt"
    /\ tw_self' = TraceWarning("pytest", tw_args.text, tw_args.data, tw_args.update_fn,
                               TRUE, FALSE)
    /\ tw_last' = [NoCall EXCEPT !.call = "__init__"]
    /\ UNCHANGED <<tw_args, tw_others>>

\* w.update(data) on a constructed warning
Update ==
    /\ tw_self.raised = ""
    /\ \E data \in Updates :
          LET r == update(tw_self, data)
          IN  /\ \A k \in DOMAIN r.self.args_list : r.self.args_list[k].v <= MaxCount
              /\ tw_self' = r.self
              /\ tw_last' = [call |-> "update", data |-> data, before |-> tw_self,
                             result |-> r.result, raised |-> r.raised]
    /\ UNCHANGED <<tw_args, tw_others>>

WarnNext == Construct \/ Update

(***************************************************************************)
(* AbstractContext (pipeline/context.py) and the warnings it owns, from    *)
(* construction to the deallocation of the context and of its warnings.    *)
(***************************************************************************)
\* the number of times the program itself may call AbstractContext.__del__
MaxHooks == 1

WarningNames == <<"w1", "w2">>

\* AbstractContext.add_warning
add_warning(warnings, warning) ==
    [n \in (DOMAIN warnings) \cup {warning.name} |->
        IF n = warning.name THEN warning ELSE warnings[n]]

\* AbstractContext.issue_warning: the call of update it makes
issue_warning(warnings, w_name, data) ==
    IF Len(data) = 0 THEN update(warnings[w_name], <<<<"count", IntOf(1)>>>>)
    ELSE update(warnings[w_name], data)

\* AbstractContext.print_warnings: the records it logs, from the i-th warning on
RECURSIVE print_warnings(_, _, _)
print_warnings(warnings, order, i) ==
    IF i > Len(order) THEN <<>>
    ELSE (IF has_warning(warnings[order[i]])
          THEN <<[level |-> "WARN", name |-> order[i]]>> ELSE <<>>)
         \o print_warnings(warnings, order, i + 1)

\* AbstractContext.__del__
AbstractContext_del(warnings, order) == print_warnings(warnings, order, 1)

\* the records the warnings of the context log when the dictionary of the deallocated
\* context releases them: __del__ runs for those nothing else refers to
RECURSIVE release_warnings(_, _, _, _)
release_warnings(warnings, order, refs, i) ==
    IF i > Len(order) THEN <<>>
    ELSE (IF refs[order[i]] THEN <<>> ELSE TraceWarning_del(warnings[order[i]]))
         \o release_warnings(warnings, order, refs, i + 1)

\* the warning a stage adds to its context
CountWarning(name, auto_log, is_error) ==
    TraceWarning(name, <<Word("seen"), Placeholder("count")>>, [count |-> IntOf(0)], NoDict,
                 auto_log, is_error)

CtxIdle ==
    /\ ctx_warnings = [n \in {} |-> NoWarning]
    /\ ctx_order = <<>>
    /\ ctx_refs = [n \in {} |-> FALSE]
    /\ ctx_alive = FALSE
    /\ ctx_hooks = 0
    /\ ctx_deleted = {}
    /\ ctx_log = <<>>

\* context.issue_warning(w_name) or context.issue_warning(w_name, {"count": 1})
IssueWarning ==
    /\ ctx_alive
    /\ \E w_name \in DOMAIN ctx_warnings, data \in {<<>>, <<<<"count", IntOf(1)>>>>} :
          LET r == issue_warning(ctx_warnings, w_name, data)
          IN  /\ r.self.args_list["count"].v <= MaxCount
              /\ ctx_warnings' = [ctx_warnings EXCEPT ![w_name] = r.self]
    /\ UNCHANGED <<ctx_order, ctx_refs, ctx_alive, ctx_hooks, ctx_deleted, ctx_log, ctx_others>>

\* the program runs the teardown hook of a context that stays alive
CallDel ==
    /\ ctx_alive
    /\ ctx_hooks < MaxHooks
    /\ ctx_hooks' = ctx_hooks + 1
    /\ ctx_log' = ctx_log \o AbstractContext_del(ctx_warnings, ctx_order)
    /\ UNCHANGED <<ctx_warnings, ctx_order, ctx_refs, ctx_alive, ctx_deleted, ctx_others>>

\* the context is deallocated: __del__ runs, then the warnings only the context refers
\* to are deallocated with it
Teardown ==
    /\ ctx_alive
    /\ ctx_alive' = FALSE
    /\ ctx_log' = ctx_log \o AbstractContext_del(ctx_warnings, ctx_order)
                          \o release_warnings(ctx_warnings, ctx_order, ctx_refs, 1)
    /\ ctx_deleted' = { n \in DOMAIN ctx_warnings : ~ctx_refs[n] }
    /\ UNCHANGED <<ctx_warnings, ctx_order, ctx_refs, ctx_hooks, ctx_others>>

\* the code that built a warning drops its reference to it; the warning is deallocated
\* when the context is gone as well
DropReference ==
    /\ \E n \in DOMAIN ctx_refs :
          /\ ctx_refs[n]
          /\ ctx_refs' = [ctx_refs EXCEPT ![n] = FALSE]
          /\ ctx_log' = IF ctx_alive THEN ctx_log
                        ELSE ctx_log \o TraceWarning_del(ctx_warnings[n])
          /\ ctx_deleted' = IF ctx_alive THEN ctx_deleted ELSE ctx_deleted \cup {n}
    /\ UNCHANGED <<ctx_warnings, ctx_order, ctx_alive, ctx_hooks, ctx_others>>

CtxNext == IssueWarning \/ CallDel \/ Teardown \/ DropReference

(***************************************************************************)
(* EventSortingContext (pipeline/sort.py): sort_events buffers the events  *)
(* per queue, drain sorts every queue and emits them.                      *)
(***************************************************************************)
\* the number of events given to sort_events
MaxSortTrace == 3

\* event_types=None
NoneTypes == {"None"}

\* str.split(sep) on a string kept as the sequence of its words and separators
RECURSIVE str_split(_, _)
str_split(s, sep) ==
    IF \A i \in 1..Len(s) : s[i] # sep THEN <<s>>
    ELSE LET i == CHOOSE j \in 1..Len(s) : s[j] = sep /\ \A h \in 1..(j - 1) : s[h] # sep
         IN  <<SubSeq(s, 1, i - 1)>> \o str_split(SubSeq(s, i + 1, Len(s)), sep)

\* a piece of a split string as the name it spells
Spelled(piece) == IF piece = <<>> THEN "" ELSE piece[1]

\* EventSortingContext._parse_sortkey
parse_sortkey(sortkey) ==
    LET keys == str_split(sortkey, ",")
    IN  [i \in 1..Len(keys) |->
            LET key == str_split(keys[i], ":")
            IN  <<Spelled(key[1]),
                  IF Len(key) > 1 /\ key[2] = <<"r">> THEN -1 ELSE 1>>]

\* EventPairDetectionContext.queue_hash: one queue per (pid, tid)
pair_queue_hash(pid, tid) == <<pid, tid>>

\* EventSortingContext.queue_hash
sort_queue_hash(self, pid, tid) ==
    IF self.global_sort THEN <<1>> ELSE pair_queue_hash(pid, tid)

\* EventSortingContext._check_keys: the primary key only
check_keys(self, event) == self.sortkey[1][1] \in DOMAIN event

\* sort that keeps only the last event of a queue
sort_overwrite(self, queues, order, event) ==
    IF (self.event_types # NoneTypes /\ event.ph \notin self.event_types)
       \/ ~check_keys(self, event)
    THEN [queues |-> queues, order |-> order, returned |-> <<event>>]
    ELSE LET tid == IF "tid" \in DOMAIN event THEN event.tid ELSE 0
             queue_id == sort_queue_hash(self, event.pid, tid)
         IN  [queues |-> [q \in (DOMAIN queues) \cup {queue_id} |->
                             IF q = queue_id THEN <<event>> ELSE queues[q]],
              order |-> IF queue_id \in DOMAIN queues THEN order ELSE Append(order, queue_id),
              returned |-> <<>>]

\* EventSortingContext.sort: the queues, their order and the events returned
sort(self, queues, order, event) ==
    IF (self.event_types # NoneTypes /\ event.ph \notin self.event_types)
       \/ ~check_keys(self, event)
    THEN [queues |-> queues, order |-> order, returned |-> <<event>>]
    ELSE LET tid == IF "tid" \in DOMAIN event THEN event.tid ELSE 0
             queue_id == sort_queue_hash(self, event.pid, tid)
         IN  [queues |-> [q \in (DOMAIN queues) \cup {queue_id} |->
                             IF q = queue_id
                             THEN (IF q \in DOMAIN queues THEN queues[q] ELSE <<>>)
                                  \o <<event>>
                             ELSE queues[q]],
              order |-> IF queue_id \in DOMAIN queues THEN order ELSE Append(order, queue_id),
              returned |-> <<>>]

\* float(x) of a number below 2^53 is the number
float(x) == x

\* the key function of drain: tuple([float(rev) * float(x[k] if k in x else 0.0) ...])
sort_key_of(sortkey, x) ==
    [i \in 1..Len(sortkey) |->
        float(sortkey[i][2]) * float(IF sortkey[i][1] \in DOMAIN x THEN x[sortkey[i][1]] ELSE 0)]

\* a < b on tuples of the same length
tuple_less(a, b) ==
    \E i \in 1..Len(a) : a[i] < b[i] /\ \A j \in 1..(i - 1) : a[j] = b[j]

\* list.sort(key=...) leaves the list unsorted
list_sort_none(q, sortkey) == q

\* list.sort(key=...): stable, by insertion of each element behind the elements that
\* are not greater
RECURSIVE list_sort(_, _)
list_sort(q, sortkey) ==
    IF q = <<>> THEN <<>>
    ELSE LET front == list_sort(SubSeq(q, 1, Len(q) - 1), sortkey)
             x == q[Len(q)]
             n == Cardinality({ i \in 1..Len(front) :
                                  ~tuple_less(sort_key_of(sortkey, x),
                                              sort_key_of(sortkey, front[i])) })
         IN  SubSeq(front, 1, n) \o <<x>> \o SubSeq(front, n + 1, Len(front))

\* EventSortingContext.drain: the sorted queues, popped in the order of the dictionary
RECURSIVE drain_sorted(_, _, _, _)
drain_sorted(self, queues, order, i) ==
    IF i > Len(order) THEN <<>>
    ELSE list_sort(queues[order[i]], self.sortkey)
         \o drain_sorted(self, queues, order, i + 1)

\* the sortkey arguments of the context
SortKeys ==
    { <<"ts">>,
      <<"ts", ":", "r">>,
      <<"dur", ":", "r", ",", "ts">>,
      <<"ts", ",", "dur", ":", "r">> }

\* the events of the trace; seq stands for what tells two events apart
SortEvents ==
    { [ph |-> "X", pid |-> 0, tid |-> 0, ts |-> 2, dur |-> 1, seq |-> 0],
      [ph |-> "X", pid |-> 0, tid |-> 0, ts |-> 1, dur |-> 1, seq |-> 0],
      [ph |-> "X", pid |-> 0, tid |-> 0, ts |-> 1, dur |-> 2, seq |-> 0],
      [ph |-> "X", pid |-> 0, ts |-> 0, dur |-> 2, seq |-> 0],
      [ph |-> "X", pid |-> 0, tid |-> 0, ts |-> 1, seq |-> 0],
      [ph |-> "X", pid |-> 0, tid |-> 0, dur |-> 1, seq |-> 0],
      [ph |-> "X", pid |-> 1, tid |-> 0, ts |-> 0, dur |-> 1, seq |-> 0],
      [ph |-> "X", pid |-> 0, tid |-> 1, ts |-> 1, dur |-> 1, seq |-> 0],
      [ph |-> "M", pid |-> 0, tid |-> 0, ts |-> 0, seq |-> 0],
      [ph |-> "X", pid |-> 0, tid |-> 0, ts |-> -1, dur |-> 0, seq |-> 0] }

NoSortContext == [event_types |-> NoneTypes, sortkey |-> <<>>, global_sort |-> FALSE]

SortIdle ==
    /\ sort_ctx = NoSortContext
    /\ sort_queues = [q \in {} |-> <<>>]
    /\ sort_order = <<>>
    /\ sort_in = <<>>
    /\ sort_returned = <<>>
    /\ sort_drained = <<>>
    /\ sort_phase = "idle"

\* sort_events(event, context)
SortEvent ==
    /\ sort_phase = "sort"
    /\ Len(sort_in) < MaxSortTrace
    /\ \E e \in SortEvents :
          LET event == [e EXCEPT !.seq = Len(sort_in) + 1]
              r == sort(sort_ctx, sort_queues, sort_order, event)
          IN  /\ sort_in' = Append(sort_in, event)
              /\ sort_queues' = r.queues
              /\ sort_order' = r.order
              /\ sort_returned' = sort_returned \o r.returned
    /\ UNCHANGED <<sort_ctx, sort_drained, sort_phase, sort_others>>

\* context.drain() at the end of the trace
SortDrain ==
    /\ sort_phase = "sort"
    /\ sort_drained' = drain_sorted(sort_ctx, sort_queues, sort_order, 1)
    /\ sort_queues' = [q \in {} |-> <<>>]
    /\ sort_order' = <<>>
    /\ sort_phase' = "drained"
    /\ UNCHANGED <<sort_ctx, sort_in, sort_returned, sort_others>>

\* the largest number of drains after the first
MaxSortDrains == 1

SortAgainIdle ==
    /\ sort_more = 0
    /\ sort_again = <<>>

\* context.drain() once more
SortDrainAgain ==
    /\ sort_phase = "drained"
    /\ sort_more < MaxSortDrains
    /\ sort_again' = sort_again \o drain_sorted(sort_ctx, sort_queues, sort_order, 1)
    /\ sort_queues' = [q \in {} |-> <<>>]
    /\ sort_order' = <<>>
    /\ sort_more' = sort_more + 1
    /\ UNCHANGED <<sort_ctx, sort_in, sort_returned, sort_drained, sort_phase>>
    /\ UNCHANGED <<norm_vars, cls_vars, cat_vars, flow_vars, util_vars, tw_vars, ctx_vars,
                   flt_vars, pwr_vars, sp_vars, ref_vars, exp_vars>>

SortNext == SortEvent \/ SortDrain \/ SortDrainAgain

(***************************************************************************)
(* normalize_phase1 on events kept as the dictionaries they are            *)
(* (pipeline/normalize.py): a value is a string, a number or a dictionary; *)
(* a name is the sequence of its words, a counter string the sequence of   *)
(* its characters.  Counters are in units of 2^30 cycles as above.         *)
(***************************************************************************)
StrVal(s) == [kind |-> "str", s |-> s, n |-> 0, d |-> <<>>]
NumVal(n) == [kind |-> "num", s |-> <<>>, n |-> n, d |-> <<>>]
DictVal(d) == [kind |-> "dict", s |-> <<>>, n |-> 0, d |-> d]

TSName == <<"TS1", "TS2", "TS3", "TS4", "TS5">>

\* the value of a digit character
DigitValue ==
    [c \in {"0", "1", "2", "3", "4", "5", "6", "7", "8", "9", "a", "b", "c", "d", "e", "f"} |->
        CASE c = "0" -> 0 [] c = "1" -> 1 [] c = "2" -> 2 [] c = "3" -> 3 [] c = "4" -> 4
          [] c = "5" -> 5 [] c = "6" -> 6 [] c = "7" -> 7 [] c = "8" -> 8 [] c = "9" -> 9
          [] c = "a" -> 10 [] c = "b" -> 11 [] c = "c" -> 12 [] c = "d" -> 13
          [] c = "e" -> 14 [] OTHER -> 15]

IsDigits(s, base) ==
    s # <<>> /\ \A i \in 1..Len(s) : s[i] \in DOMAIN DigitValue /\ DigitValue[s[i]] < base

RECURSIVE digits_value(_, _)
digits_value(s, base) ==
    IF s = <<>> THEN 0
    ELSE digits_value(SubSeq(s, 1, Len(s) - 1), base) * base + DigitValue[s[Len(s)]]

\* int(s, 0) of an unsigned literal: ok is FALSE where it raises ValueError
int_base0(s) ==
    IF Len(s) >= 2 /\ s[1] = "0" /\ s[2] \in {"x", "X"}
    THEN [ok |-> IsDigits(SubSeq(s, 3, Len(s)), 16),
          n |-> IF IsDigits(SubSeq(s, 3, Len(s)), 16) THEN digits_value(SubSeq(s, 3, Len(s)), 16)
                ELSE 0]
    ELSE IF Len(s) >= 2 /\ s[1] = "0" /\ s[2] \in {"b", "B"}
    THEN [ok |-> IsDigits(SubSeq(s, 3, Len(s)), 2),
          n |-> IF IsDigits(SubSeq(s, 3, Len(s)), 2) THEN digits_value(SubSeq(s, 3, Len(s)), 2)
                ELSE 0]
    ELSE IF IsDigits(s, 10) /\ (s[1] # "0" \/ \A i \in 1..Len(s) : s[i] = "0")
    THEN [ok |-> TRUE, n |-> digits_value(s, 10)]
    ELSE [ok |-> FALSE, n |-> 0]

\* str(n) of an int that is not negative
RECURSIVE str_of_int(_)
str_of_int(n) ==
    LET last == CHOOSE c \in DOMAIN DigitValue : DigitValue[c] = n % 10
    IN  IF n < 10 THEN <<last>> ELSE Append(str_of_int(n \div 10), last)

\* d[k] = v on a dictionary
dict_set(d, k, v) == [x \in (DOMAIN d) \cup {k} |-> IF x = k THEN v ELSE d[x]]
dict_pop(d, k) == [x \in (DOMAIN d) \ {k} |-> d[x]]

\* _attr_to_args
attr_to_args(event) ==
    IF "attr" \notin DOMAIN event THEN event
    ELSE LET args == IF "args" \in DOMAIN event THEN event["args"].d ELSE <<>>
             attr == event["attr"].d
             merged == [k \in (DOMAIN args) \cup (DOMAIN attr) |->
                           IF k \in DOMAIN attr THEN attr[k] ELSE args[k]]
         IN  dict_pop(dict_set(event, "args", DictVal(merged)), "attr")

\* _hex_to_int_str
hex_to_int_str(event) ==
    IF "args" \notin DOMAIN event THEN event
    ELSE IF event["args"].kind # "dict" THEN event
    ELSE LET args == event["args"].d
         IN  dict_set(event, "args", DictVal(
                [k \in DOMAIN args |->
                    IF k \in SeqRange(TSName) \cup {"Power"} /\ args[k].kind = "str"
                       /\ int_base0(args[k].s).ok
                    THEN StrVal(str_of_int(int_base0(args[k].s).n))
                    ELSE args[k]]))

\* _name_unification
name_unification(name) ==
    [i \in 1..Len(name) |->
        CASE name[i] = "Receive" -> "Recv" [] name[i] = "RDMA" -> "Rdma" [] OTHER -> name[i]]

\* NormalizationContext.extract_eventfilters: the items of the dictionary it builds,
\* from the piece i of filterstr.split(",") on
RECURSIVE eventfilter_items(_, _, _)
eventfilter_items(pieces, i, items) ==
    IF i > Len(pieces) THEN items
    ELSE LET key_regex == str_split(pieces[i], ":")
         IN  IF Len(key_regex) # 2 THEN eventfilter_items(pieces, i + 1, items)
             ELSE IF \E j \in 1..Len(items) : items[j][1] = key_regex[1]
             THEN eventfilter_items(pieces, i + 1,
                     [j \in 1..Len(items) |->
                         IF items[j][1] = key_regex[1] THEN <<key_regex[1], key_regex[2]>>
                         ELSE items[j]])
             ELSE eventfilter_items(pieces, i + 1, Append(items, <<key_regex[1], key_regex[2]>>))

extract_eventfilters(filterstr) ==
    IF filterstr = <<>> THEN <<>>
    ELSE eventfilter_items(str_split(filterstr, ","), 1, <<>>)

\* the loop of event_filtered over attr_tree: the value it ends at
RECURSIVE walk_attr_tree(_, _, _)
walk_attr_tree(e, attr_tree, i) ==
    IF i > Len(attr_tree) THEN [e |-> e, raised |-> ""]
    ELSE LET a == Spelled(attr_tree[i])
         IN  CASE e.kind = "dict" ->
                    IF a \in DOMAIN e.d THEN walk_attr_tree(e.d[a], attr_tree, i + 1)
                    ELSE [e |-> e, raised |-> ""]
               [] e.kind = "str" ->
                    \* 'a in e' is the substring test, e[a] raises
                    IF a = "" \/ Contains(e.s, <<a>>) THEN [e |-> e, raised |-> "TypeError"]
                    ELSE [e |-> e, raised |-> ""]
               [] OTHER -> [e |-> e, raised |-> "TypeError"]

\* event_filtered that matches nothing
event_filtered_never(filter, event, i) == "False"

\* NormalizationContext.event_filtered from item i on: "True", "False" or "TypeError"
RECURSIVE event_filtered(_, _, _)
event_filtered(filter, event, i) ==
    IF i > Len(filter) THEN "False"
    ELSE LET r == walk_attr_tree(DictVal(event), str_split(filter[i][1], "."), 1)
         IN  IF r.raised # "" THEN r.raised
             ELSE IF r.e.kind = "dict" THEN event_filtered(filter, event, i + 1)
             ELSE IF r.e.kind = "num" THEN "TypeError"
             ELSE IF Contains(r.e.s, filter[i][2]) THEN "True"
             ELSE event_filtered(filter, event, i + 1)

\* the first field of TS1..TS5 at which the loop of the local correction raises
local_correction_raises(args) ==
    LET bad == { i \in 1..5 : \/ TSName[i] \notin DOMAIN args
                              \/ args[TSName[i]].kind # "str"
                              \/ ~int_base0(args[TSName[i]].s).ok }
        first == CHOOSE i \in bad : \A j \in bad : i <= j
    IN  IF bad = {} THEN ""
        ELSE IF TSName[first] \notin DOMAIN args THEN "KeyError"
        ELSE IF args[TSName[first]].kind # "str" THEN "TypeError"
        ELSE "ValueError"

\* the local correction that converts the counters and corrects none
local_correction_args_uncorrected(args) ==
    [k \in DOMAIN args |->
        IF \E i \in 1..5 : TSName[i] = k THEN StrVal(str_of_int(int_base0(args[k].s).n))
        ELSE args[k]]

\* tsx_32bit_local_correction on the args of an event whose name has no "Cmpt Exec"
local_correction_args(args) ==
    LET TS == [i \in 1..5 |-> int_base0(args[TSName[i]].s).n]
        c == LocalCurr(TS)
        bad == { i \in 1..5 : TS[i] < c[i - 1] }
        of == CHOOSE i \in bad : \A j \in bad : i <= j
        marked == IF bad # {} /\ "TSxOF" \notin DOMAIN args
                  THEN dict_set(args, "TSxOF", StrVal(<<TSName[of]>>)) ELSE args
    IN  [k \in DOMAIN marked |->
            IF \E i \in 1..5 : TSName[i] = k
            THEN StrVal(str_of_int(c[CHOOSE i \in 1..5 : TSName[i] = k]))
            ELSE marked[k]]

\* normalize_phase1: the events returned and the exception raised
normalize_phase1_event(filter, event) ==
    IF event["ph"].s # <<"X">> THEN [returned |-> <<event>>, raised |-> ""]
    ELSE LET e1 == hex_to_int_str(attr_to_args(event))
             e2 == dict_set(e1, "name", StrVal(name_unification(e1["name"].s)))
             filtered == event_filtered(filter, e2, 1)
             args == dict_set(e2["args"].d, "jobname", StrVal(<<"job">>))
         IN  IF filtered = "TypeError" THEN [returned |-> <<>>, raised |-> "TypeError"]
             ELSE IF filtered = "True" THEN [returned |-> <<>>, raised |-> ""]
             ELSE IF "TS1" \notin DOMAIN args
             THEN [returned |-> <<dict_set(e2, "args", DictVal(args))>>, raised |-> ""]
             ELSE IF local_correction_raises(args) # ""
             THEN [returned |-> <<>>, raised |-> local_correction_raises(args)]
             ELSE [returned |-> <<dict_set(e2, "args", DictVal(local_correction_args(args)))>>,
                   raised |-> ""]

\* the events of the trace
DictEvent(ph, name, args) ==
    [ph |-> StrVal(<<ph>>), name |-> StrVal(name), ts |-> NumVal(1), dur |-> NumVal(1),
     pid |-> NumVal(0), args |-> DictVal(args)]

FilterEvents ==
    { DictEvent("X", <<"add", "kernel">>, [jobhash |-> NumVal(7), fn |-> StrVal(<<"kernel", "add">>)]),
      DictEvent("X", <<"mul">>, [jobhash |-> NumVal(7), fn |-> StrVal(<<"mul">>)]),
      DictEvent("B", <<"add">>, [jobhash |-> NumVal(7)]),
      DictEvent("X", <<"RDMA", "Receive">>, [jobhash |-> NumVal(7)]),
      [ph |-> StrVal(<<"X">>), name |-> StrVal(<<"add">>), ts |-> NumVal(1), dur |-> NumVal(1),
       pid |-> NumVal(0), attr |-> DictVal([jobhash |-> NumVal(7), fn |-> StrVal(<<"add">>)])],
      DictEvent("X", <<"add">>,
                [jobhash |-> NumVal(7), TS1 |-> StrVal(<<"1">>), TS2 |-> StrVal(<<"0", "x", "2">>),
                 TS3 |-> StrVal(<<"0">>), TS4 |-> StrVal(<<"1">>), TS5 |-> StrVal(<<"2">>)]) }

\* the counter strings of the events that carry TS1..TS5
TSStrings == { <<"0">>, <<"1">>, <<"3">>, <<"0", "x", "2">>, <<"0", "x", "b">> }

TSEvents ==
    { DictEvent("X", <<"dma">>,
                [jobhash |-> NumVal(7), TS1 |-> StrVal(t[1]), TS2 |-> StrVal(t[2]),
                 TS3 |-> StrVal(t[3]), TS4 |-> StrVal(t[4]), TS5 |-> StrVal(t[5])]) :
        t \in [1..5 -> TSStrings] }

\* the filterstr arguments, as the sequences of their words and separators
FilterStrings ==
    { <<>>,
      <<"name", ":", "add">>,
      <<"name", ":", "mul">>,
      <<"name", ":", "Recv">>,
      <<"args", ".", "fn", ":", "add">>,
      <<"args", ".", "zz", ":", "add">>,
      <<"zz", ":", "add">>,
      <<"name", ".", "zz", ":", "add">>,
      <<"name", ".", "add", ":", "add">>,
      <<"args", ".", "fn", ".", "zz", ":", "kernel">>,
      <<"ts", ".", "x", ":", "1">>,
      <<"pid", ":", "0">>,
      <<"name", ":", "mul", ",", "args", ".", "fn", ":", "kernel">>,
      <<"name">>,
      <<"name", ":", "add", ":", "b">> }

NoDictEvent == [ph |-> StrVal(<<"-">>)]

FilterIdle ==
    /\ event_filter = <<>>
    /\ flt_in = NoDictEvent
    /\ flt_out = <<>>
    /\ flt_raised = "idle"

\* normalize_phase1(event, context)
FilterPhase1 ==
    /\ flt_raised = "none"
    /\ LET r == normalize_phase1_event(event_filter, flt_in)
       IN  /\ flt_out' = r.returned
           /\ flt_raised' = r.raised
    /\ UNCHANGED <<event_filter, flt_in, flt_others>>

FilterNext == FilterPhase1

(***************************************************************************)
(* analyze_power_statistics: power samples and kernel periods are          *)
(* collected while the events pass                                         *)
(***************************************************************************)
MaxPowerTrace == 3

\* an event as analyze_power_statistics reads it; NoTs, NoDur and NoWatts stand for a
\* key the event does not carry
NoTs == -1
NoDur == -1
NoWatts == -1
PowerEvent(ph, name, ts, dur, watts) ==
    [ph |-> ph, name |-> name, ts |-> ts, dur |-> dur, watts |-> watts]

NoSample == <<>>

\* the part of PowerStatisticsContext the stage writes
PowerStatisticsContext(periods, last, kernels) ==
    [power_periods |-> periods, last_power_sample |-> last, kernel_periods |-> kernels]

\* analyze_power_statistics: the context after the event (the event itself is returned)
analyze_power_statistics(event, context) ==
    LET ts == event.ts
    IN  IF ts = NoTs \/ ts = 0 THEN context                  \* if not ts
        ELSE IF event.ph = "C" /\ event.name = <<"Power">>
        THEN IF event.watts = NoWatts THEN context
             ELSE LET last == context.last_power_sample
                      periods == IF last # NoSample /\ ts > last[1]
                                 THEN Append(context.power_periods, <<last[1], ts, last[2]>>)
                                 ELSE context.power_periods
                  IN  PowerStatisticsContext(periods, <<ts, event.watts>>, context.kernel_periods)
        ELSE IF event.ph = "X" /\ Contains(event.name, <<"Cmpt", "Exec">>)
        THEN LET dur == IF event.dur = NoDur THEN 0 ELSE event.dur
             IN  IF dur > 0
                 THEN PowerStatisticsContext(context.power_periods, context.last_power_sample,
                                             Append(context.kernel_periods, <<ts, ts + dur>>))
                 ELSE context
        ELSE context

\* the events of the trace
PowerEvents ==
    { PowerEvent("C", <<"Power">>, 0, NoDur, 5),
      PowerEvent("C", <<"Power">>, 1, NoDur, 7),
      PowerEvent("C", <<"Power">>, 2, NoDur, 0),
      PowerEvent("C", <<"Power">>, 2, NoDur, NoWatts),
      PowerEvent("C", <<"Bandwidth">>, 1, NoDur, NoWatts),
      PowerEvent("X", <<"add", "Cmpt", "Exec">>, 0, 2, NoWatts),
      PowerEvent("X", <<"add", "Cmpt", "Exec">>, 1, 2, NoWatts),
      PowerEvent("X", <<"add", "Cmpt", "Exec">>, 2, 0, NoWatts),
      PowerEvent("X", <<"add", "Cmpt", "Prep">>, 1, 2, NoWatts),
      PowerEvent("M", <<"process_name">>, NoTs, NoDur, NoWatts) }

PowerIdle ==
    /\ power_periods = <<>>
    /\ last_power_sample = NoSample
    /\ kernel_periods = <<>>
    /\ pwr_in = <<>>
    /\ pwr_out = <<>>

\* analyze_power_statistics(event, context)
AnalyzePower ==
    /\ Len(pwr_in) < MaxPowerTrace
    /\ \E event \in PowerEvents :
          LET c == analyze_power_statistics(
                       event, PowerStatisticsContext(power_periods, last_power_sample,
                                                     kernel_periods))
          IN  /\ power_periods' = c.power_periods
              /\ last_power_sample' = c.last_power_sample
              /\ kernel_periods' = c.kernel_periods
              /\ pwr_in' = Append(pwr_in, event)
              /\ pwr_out' = Append(pwr_out, event)
    /\ UNCHANGED pwr_others

PowerNext == AnalyzePower

(***************************************************************************)
(* StageProfile and StageProfileChecker: stages register in profile order  *)
(***************************************************************************)
MaxStageCalls == 3

StageNames == {"normalize", "sort", "export"}

\* StageProfile._ingest_profile_data: the names of the enabled stages, in order
RECURSIVE ingest_profile_data(_)
ingest_profile_data(stages) ==
    IF stages = <<>> THEN <<>>
    ELSE IF Head(stages)[2] THEN <<Head(stages)[1]>> \o ingest_profile_data(Tail(stages))
    ELSE ingest_profile_data(Tail(stages))

\* fwd_find_stage that searches the whole profile
fwd_find_stage_anywhere(profile, idx, stage) ==
    LET found == { i \in 1..Len(profile) : profile[i] = stage }
    IN  IF found = {} THEN [result |-> "False", reg_idx |-> idx]
        ELSE [result |-> "True", reg_idx |-> (CHOOSE i \in found : \A j \in found : i <= j) - 1]

\* StageProfileChecker.fwd_find_stage: the value returned and reg_idx afterwards
\* (reg_idx counts from 0 as in the code, profile[reg_idx:] starts at element reg_idx + 1)
fwd_find_stage(profile, idx, stage) ==
    LET rest == SubSeq(profile, idx + 1, Len(profile))
        found == { incr \in 0..(Len(rest) - 1) : rest[incr + 1] = stage }
    IN  IF found = {} THEN [result |-> "False", reg_idx |-> idx]
        ELSE [result |-> "True",
              reg_idx |-> idx + (CHOOSE i \in found : \A j \in found : i <= j)]

\* the 'stages' lists of the profiles: three entries {stage: enabled}
ProfileStages == [1..3 -> StageNames \X BOOLEAN]

StageIdle ==
    /\ sp_profile = <<>>
    /\ reg_idx = 0
    /\ sp_stage = ""
    /\ sp_result = "idle"
    /\ sp_calls = 0

\* checker.fwd_find_stage(stage)
FwdFindStage ==
    /\ sp_result # "idle"
    /\ sp_calls < MaxStageCalls
    /\ \E stage \in StageNames \cup {"unknown"} :
          LET r == fwd_find_stage(sp_profile, reg_idx, stage)
          IN  /\ sp_stage' = stage
              /\ sp_result' = r.result
              /\ reg_idx' = r.reg_idx
    /\ sp_calls' = sp_calls + 1
    /\ UNCHANGED <<sp_profile, sp_others>>

StageNext == FwdFindStage

(***************************************************************************)
(* tb_refinement_lightweight and RefinementContext.drain: processes are    *)
(* registered from the events and their metadata is emitted by drain       *)
(***************************************************************************)
MaxRefTrace == 3
MaxDrains == 2

\* an event as the refinement reads it (pids are ints, args.rank is carried as rank)
RefEvent(ph, name, dialect, hasTS1, cat, pid, rank) ==
    [ph |-> ph, hasName |-> TRUE, name |-> name, dialect |-> dialect, hasTS1 |-> hasTS1,
     hasCollGroup |-> FALSE, cat |-> cat, pid |-> pid, rank |-> rank, ts |-> 5, device |-> -1]

\* one entry of DeviceRankInfo.data
RankData(name, pid, ts, index) == [name |-> name, ts |-> ts, pid |-> pid, index |-> index]

\* DeviceRankInfo.__init__
DeviceRankInfo ==
    [initialized |-> <<FALSE, FALSE>>,
     data |-> [cpu |-> RankData(<<"cpu_default">>, 0, 0, 0),
               acc |-> RankData(<<"acc_default">>, 0, 0, 0)]]

\* DeviceRankInfo.set_cpu_data, set_acc_data
set_cpu_data(info, name, pid, ts, index) ==
    [initialized |-> <<TRUE, info.initialized[2]>>,
     data |-> [info.data EXCEPT !["cpu"] = RankData(name, pid, ts, index)]]
set_acc_data(info, name, pid, ts, index) ==
    [initialized |-> <<info.initialized[1], TRUE>>,
     data |-> [info.data EXCEPT !["acc"] = RankData(name, pid, ts, index)]]

\* a metadata event: args.name or args.sort_index is carried as arg
MetaEvent(name, pid, ts, arg) == [ph |-> "M", name |-> name, pid |-> pid, ts |-> ts, arg |-> arg]

\* DeviceRankInfo.gen_meta
gen_meta(info, key) ==
    LET entry == info.data[key]
    IN  << MetaEvent("process_name", entry.pid, entry.ts, entry.name),
           MetaEvent("process_label", entry.pid, entry.ts, entry.name),
           MetaEvent("process_sort_index", entry.pid, entry.ts, <<entry.index>>) >>

\* RefinementContext._queue_add_device: the queues afterwards
queue_add_device(queues, dev_id, pid, ts, is_acc) ==
    LET q == IF dev_id \in DOMAIN queues THEN queues
             ELSE [d \in (DOMAIN queues) \cup {dev_id} |->
                      IF d = dev_id THEN DeviceRankInfo ELSE queues[d]]
    IN  IF is_acc
        THEN IF q[dev_id].initialized[2] THEN q
             ELSE [q EXCEPT ![dev_id] =
                      set_acc_data(@, <<"AIU", "Device", dev_id>>, pid, ts, dev_id * 3 + 1)]
        ELSE IF q[dev_id].initialized[1] THEN q
             ELSE [q EXCEPT ![dev_id] = set_cpu_data(@, <<"Host", dev_id>>, pid, ts, dev_id * 3)]

\* the metadata of the queues in the order the devices were added, which for the traces
\* of the model is recorded in order
RECURSIVE queues_meta(_, _)
queues_meta(queues, order) ==
    IF order = <<>> THEN <<>>
    ELSE gen_meta(queues[Head(order)], "cpu") \o gen_meta(queues[Head(order)], "acc")
         \o queues_meta(queues, Tail(order))

\* RefinementContext.drain: the events returned
refinement_drain(queues, order, exported, coll_bw) ==
    IF exported THEN <<>>
    ELSE queues_meta(queues, order)
         \o (IF coll_bw
             THEN << MetaEvent("process_name", -1, 0, <<"CollectiveBW">>),
                     MetaEvent("process_sort_index", -1, 0, <<0>>) >>
             ELSE <<>>)

\* the events of the trace
RefEvents ==
    { RefEvent("X", <<"add", "Cmpt", "Exec">>, "FLEX", TRUE, "none", p, p) : p \in {0, 1} }
    \cup { RefEvent("X", <<"launch">>, "FLEX", FALSE, "none", p, p) : p \in {0, 1} }
    \cup { RefEvent("X", <<"aten::add">>, "TORCH", FALSE, "cpu_op", 0, 0),
           RefEvent("C", <<"BW", "allreduce">>, "FLEX", FALSE, "none", -1, -1),
           RefEvent("C", <<"Power">>, "FLEX", FALSE, "none", 0, 0) }

RefineIdle ==
    /\ ref_queues = <<>>
    /\ meta_exported = FALSE
    /\ has_coll_bw = FALSE
    /\ ref_devices = {}
    /\ ref_in = <<>>
    /\ ref_out = <<>>
    /\ ref_meta = <<>>
    /\ ref_last = <<>>
    /\ ref_drains = 0

\* the order in which the device ids entered the queues
RECURSIVE DeviceOrder(_)
DeviceOrder(events) ==
    IF events = <<>> THEN <<>>
    ELSE LET before == DeviceOrder(SubSeq(events, 1, Len(events) - 1))
             e == events[Len(events)]
         IN  IF e.ph = "X" /\ e.dialect # "TORCH"
                /\ \A i \in 1..Len(before) : before[i] # e.pid
             THEN Append(before, e.pid) ELSE before

\* tb_refinement_lightweight(event, context); the category and the thread id it gives
\* the returned event are not carried
RefineLightweight ==
    /\ ref_drains = 0
    /\ Len(ref_in) < MaxRefTrace
    /\ \E event \in RefEvents :
          /\ ref_in' = Append(ref_in, event)
          /\ IF event.ph # "X"
             THEN /\ has_coll_bw' = (has_coll_bw \/ (event.ph = "C" /\ event.name = <<"BW", "allreduce">>))
                  /\ ref_out' = Append(ref_out, event)
                  /\ UNCHANGED <<ref_queues, meta_exported, ref_devices>>
             ELSE IF event.dialect = "TORCH"
             THEN /\ meta_exported' = TRUE
                  /\ ref_out' = Append(ref_out, event)
                  /\ UNCHANGED <<ref_queues, has_coll_bw, ref_devices>>
             ELSE IF is_acc_event(event)
             THEN /\ ref_queues' = queue_add_device(ref_queues, event.pid, event.rank, event.ts, TRUE)
                  /\ ref_devices' = ref_devices \cup {event.pid}
                  /\ ref_out' = Append(ref_out, [event EXCEPT !.device = event.rank])
                  /\ UNCHANGED <<meta_exported, has_coll_bw>>
             ELSE /\ ref_queues' = queue_add_device(ref_queues, event.pid, event.pid + 1000,
                                                    event.ts, FALSE)
                  /\ ref_out' = Append(ref_out, [event EXCEPT !.pid = event.pid + 1000])
                  /\ UNCHANGED <<meta_exported, has_coll_bw, ref_devices>>
    /\ UNCHANGED <<ref_meta, ref_last, ref_drains, ref_others>>

\* context.drain()
RefineDrain ==
    /\ ref_drains < MaxDrains
    /\ LET revents == refinement_drain(ref_queues, DeviceOrder(ref_in), meta_exported, has_coll_bw)
       IN  /\ ref_last' = revents
           /\ ref_meta' = ref_meta \o revents
    /\ meta_exported' = TRUE
    /\ ref_drains' = ref_drains + 1
    /\ UNCHANGED <<ref_queues, has_coll_bw, ref_devices, ref_in, ref_out, ref_others>>

RefineNext == RefineLightweight \/ RefineDrain

(***************************************************************************)
(* TensorBoardFileTraceExporter: flush splits the exported events into one *)
(* trace per worker                                                        *)
(***************************************************************************)
MaxExportTrace == 3
MaxDevices == 1

\* an exported event: its pid (NonePid for a pid that is no int) and its name
NonePid == -2
ExportedEvent(pid, name) == [pid |-> pid, name |-> name]

\* the rank id _parse_by_rank_id files an id under
rank_id_of(id) == IF id >= 1000 THEN id - 1000 ELSE id

\* TensorBoardFileTraceExporter._parse_by_rank_id: the dictionary it returns, data being
\* the ids (event[key]) in order; a pid that is no int is skipped
parse_by_rank_id(ids) ==
    LET kept == { i \in 1..Len(ids) : ids[i] # NonePid }
        keys == { rank_id_of(ids[i]) : i \in kept }
    IN  [k \in keys |-> { i \in kept : rank_id_of(ids[i]) = k }]

\* the rank count computed from the dictionary of the events
rank_cnt_of(events_by_id) ==
    IF Cardinality(DOMAIN events_by_id) > 1 THEN Cardinality(DOMAIN events_by_id) - 1
    ELSE Cardinality(DOMAIN events_by_id)

\* value[rid] on the defaultdict(list): the items filed under rid, in order
RECURSIVE in_order(_, _, _)
in_order(data, idx, i) ==
    IF i > Len(data) THEN <<>>
    ELSE IF i \in idx THEN <<data[i]>> \o in_order(data, idx, i + 1)
    ELSE in_order(data, idx, i + 1)

by_rank_value(by_id, data, rid) ==
    IF rid \in DOMAIN by_id THEN in_order(data, by_id[rid], 1) ELSE <<>>

\* _parse_events_by_id: rank_cnt and the per-rank trace views
parse_events_by_id(events, devices) ==
    LET events_by_id == parse_by_rank_id([i \in 1..Len(events) |-> events[i].pid])
        cnt == rank_cnt_of(events_by_id)
        device_data_by_id == parse_by_rank_id(devices)
    IN  [rank_cnt |-> cnt,
         traceview_by_rank |->
            [rid \in 0..(cnt - 1) |->
                [trace_events |-> by_rank_value(events_by_id, events, rid),
                 device_data |-> by_rank_value(device_data_by_id, devices, rid)]]]

\* the pids of the exported events: hosts are 1000 + rank, -1 is the collective
\* bandwidth counter
ExportPids == {-1, 0, 1, 2, 1000, 1001, NonePid}
ExportedEvents == { ExportedEvent(p, n) : p \in ExportPids, n \in {"add"} }

ExportIdle ==
    /\ trace_events = <<>>
    /\ device_data = <<>>
    /\ rank_cnt = 0
    /\ traceview_by_rank = <<>>
    /\ exp_files = {}
    /\ exp_phase = "idle"

\* exporter.export_raw(event)
ExportRaw ==
    /\ exp_phase = "export"
    /\ Len(trace_events) < MaxExportTrace
    /\ \E event \in ExportedEvents : trace_events' = Append(trace_events, event)
    /\ UNCHANGED <<device_data, rank_cnt, traceview_by_rank, exp_files, exp_phase, exp_others>>

\* exporter.add_device(id, data)
ExportAddDevice ==
    /\ exp_phase = "export"
    /\ Len(device_data) < MaxDevices
    /\ \E id \in {0, 1} : device_data' = Append(device_data, id)
    /\ UNCHANGED <<trace_events, rank_cnt, traceview_by_rank, exp_files, exp_phase, exp_others>>

\* exporter.flush()
ExportFlush ==
    /\ exp_phase = "export"
    /\ LET r == parse_events_by_id(trace_events, device_data)
       IN  /\ rank_cnt' = r.rank_cnt
           /\ traceview_by_rank' = r.traceview_by_rank
           /\ exp_files' = IF r.rank_cnt = 1 THEN {} ELSE 0..(r.rank_cnt - 1)
    /\ exp_phase' = "flushed"
    /\ UNCHANGED <<trace_events, device_data, exp_others>>

ExportNext == ExportRaw \/ ExportAddDevice \/ ExportFlush

\* RCUUtilizationContext.extract_tables: the context and the state of the loop after
\* the lines of the log from line i
RECURSIVE read_lines(_, _, _, _)
read_lines(ctx, st, log, i) ==
    IF i > Len(log) \/ ~st.keep_parsing THEN [ctx |-> ctx, st |-> st]
    ELSE LET r == process_table_line(ctx, st, log[i])
         IN  read_lines(r.ctx, r.st, log, i + 1)

\* the first tables of a compiler log: an empty table; a table with one kernel and
\* its category; a table with two kernels
FirstTables ==
    LET start == Line("start", "", <<>>, 0, FALSE)
        end == Line("end", "", <<>>, 0, FALSE)
        row(k, c) == Line("data", "", k, c, FALSE)
    IN  { <<start, end>>,
          <<start, row(<<"add_0", "-opCat", "Mm">>, 2), end>>,
          <<start, row(<<"add_0", "-opCat", "Mm">>, 2), row(<<"mul_0", "-NA", "">>, 2), end>> }

-----------------------------------------------------------------------------
(* The specifications: a fresh context of one stage, the other stages idle. *)

\* NormalizationContext.__init__
NormInit ==
    /\ SortAgainIdle
    /\ ExportIdle
    /\ RefineIdle
    /\ StageIdle
    /\ PowerIdle
    /\ FilterIdle
    /\ WarnIdle
    /\ CtxIdle
    /\ SortIdle
    /\ ClsIdle
    /\ CatIdle
    /\ FlowIdle
    /\ UtilIdle
    /\ soc_frequency \in SocFrequencies
    /\ ignore_crit \in BOOLEAN
    /\ norm_queues = [q \in {} |-> 0]
    /\ norm_warnings = [w \in {} |-> FALSE]
    /\ norm_in = NoEvent
    /\ norm_out = NoEvent
    /\ norm_stage = "idle"
    /\ norm_first = [p \in {} |-> 0]

\* One raw event in front of a fresh context
LocalInit ==
    /\ SortAgainIdle
    /\ ExportIdle
    /\ RefineIdle
    /\ StageIdle
    /\ PowerIdle
    /\ FilterIdle
    /\ WarnIdle
    /\ CtxIdle
    /\ SortIdle
    /\ ClsIdle
    /\ CatIdle
    /\ FlowIdle
    /\ UtilIdle
    /\ soc_frequency \in SocFrequencies
    /\ ignore_crit \in BOOLEAN
    /\ norm_queues = [q \in {} |-> 0]
    /\ norm_warnings = [w \in {} |-> FALSE]
    /\ norm_in \in NormRawEvents
    /\ norm_out = NoEvent
    /\ norm_stage = "raw"
    /\ norm_first = [p \in {} |-> 0]

\* A fresh EventCategorizerContext and the event it is asked to classify
ClassifyInit ==
    /\ SortAgainIdle
    /\ ExportIdle
    /\ RefineIdle
    /\ StageIdle
    /\ PowerIdle
    /\ FilterIdle
    /\ WarnIdle
    /\ CtxIdle
    /\ SortIdle
    /\ NormIdle
    /\ CatIdle
    /\ FlowIdle
    /\ UtilIdle
    /\ cls_event \in ClassifyEvents
    /\ cls_stage = "input"
    /\ cls_flex = "None"
    /\ cls_generic = "None"
    /\ cls_result = "None"
    /\ self_event_class = "unset"

\* EventCategorizerContext.__init__, with and without zero_align
CatInit ==
    /\ SortAgainIdle
    /\ ExportIdle
    /\ RefineIdle
    /\ StageIdle
    /\ PowerIdle
    /\ FilterIdle
    /\ WarnIdle
    /\ CtxIdle
    /\ SortIdle
    /\ NormIdle
    /\ ClsIdle
    /\ FlowIdle
    /\ UtilIdle
    /\ do_zero_align \in {0, 1}
    /\ first_ts = HUGE_TS
    /\ cat_queues = [b \in {} |-> <<0, 0>>]
    /\ cat_phase = "collect"
    /\ cat_trace = <<>>
    /\ cat_next = 1
    /\ cat_output = <<>>

\* LaunchFLowContext.__init__
FlowInit ==
    /\ SortAgainIdle
    /\ ExportIdle
    /\ RefineIdle
    /\ StageIdle
    /\ PowerIdle
    /\ FilterIdle
    /\ WarnIdle
    /\ CtxIdle
    /\ SortIdle
    /\ NormIdle
    /\ ClsIdle
    /\ CatIdle
    /\ UtilIdle
    /\ flow_queues = [i \in {} |-> NoFlowEvent]
    /\ flow_order = <<>>
    /\ flow_id_seq = 0
    /\ flow_phase = "collect"
    /\ flow_trace = <<>>
    /\ flow_next = 1
    /\ flow_output = <<>>
    /\ flow_warned = 0
    /\ flow_before = [i \in {} |-> NoFlowEvent]

\* RCUUtilizationContext.__init__ before extract_tables reads the first line
ExtractInit ==
    /\ SortAgainIdle
    /\ ExportIdle
    /\ RefineIdle
    /\ StageIdle
    /\ PowerIdle
    /\ FilterIdle
    /\ WarnIdle
    /\ CtxIdle
    /\ SortIdle
    /\ NormIdle
    /\ ClsIdle
    /\ CatIdle
    /\ FlowIdle
    /\ core_freq = 1
    /\ rcuctx = initialize_tables
    /\ ext_state = ParseStart
    /\ ext_lines = <<>>
    /\ ext_before = initialize_tables
    /\ util_fingerprints = [j \in {} |-> NoFprint]
    /\ util_job_order = <<>>
    /\ util_warnings = UtilWarnings
    /\ util_phase = "extract"
    /\ util_trace = <<>>
    /\ util_next = 1
    /\ util_output = <<>>
    /\ util_matches = [j \in {} |-> <<>>]
    /\ util_observed = [j \in {} |-> NoFprint]

\* MultiRCUUtilizationContext.__init__ with one compiler log
UtilInit ==
    /\ SortAgainIdle
    /\ ExportIdle
    /\ RefineIdle
    /\ StageIdle
    /\ PowerIdle
    /\ FilterIdle
    /\ WarnIdle
    /\ CtxIdle
    /\ SortIdle
    /\ NormIdle
    /\ ClsIdle
    /\ CatIdle
    /\ FlowIdle
    /\ core_freq \in CoreFreqs
    /\ rcuctx \in { extract_tables(initialize_tables, log) : log \in CompilerLogs }
    /\ ext_state = ParseStart
    /\ ext_lines = <<>>
    /\ ext_before = initialize_tables
    /\ util_fingerprints = [j \in {} |-> NoFprint]
    /\ util_job_order = <<>>
    /\ util_warnings = UtilWarnings
    /\ util_phase = "collect"
    /\ util_trace = <<>>
    /\ util_next = 1
    /\ util_output = <<>>
    /\ util_matches = [j \in {} |-> <<>>]
    /\ util_observed = [j \in {} |-> NoFprint]

\* the arguments of one constructor call
WarnInit ==
    /\ SortAgainIdle
    /\ ExportIdle
    /\ RefineIdle
    /\ StageIdle
    /\ PowerIdle
    /\ FilterIdle
    /\ NormIdle
    /\ ClsIdle
    /\ CatIdle
    /\ FlowIdle
    /\ UtilIdle
    /\ CtxIdle
    /\ SortIdle
    /\ tw_args \in [text : Texts, data : Datas, update_fn : UpdateFns]
    /\ tw_self = NoWarning
    /\ tw_last = NoCall

\* AbstractContext(warnings=[w1, w2]); each warning is built with its own auto_log and
\* is_error, and the code that built it may keep a reference
CtxInit ==
    /\ SortAgainIdle
    /\ ExportIdle
    /\ RefineIdle
    /\ StageIdle
    /\ PowerIdle
    /\ FilterIdle
    /\ NormIdle
    /\ ClsIdle
    /\ CatIdle
    /\ FlowIdle
    /\ UtilIdle
    /\ WarnIdle
    /\ SortIdle
    /\ \E a1 \in BOOLEAN, e1 \in BOOLEAN, a2 \in BOOLEAN, e2 \in BOOLEAN :
          ctx_warnings = add_warning(add_warning([n \in {} |-> NoWarning],
                                                 CountWarning("w1", a1, e1)),
                                     CountWarning("w2", a2, e2))
    /\ ctx_order = WarningNames
    /\ ctx_refs \in [SeqRange(WarningNames) -> BOOLEAN]
    /\ ctx_alive = TRUE
    /\ ctx_hooks = 0
    /\ ctx_deleted = {}
    /\ ctx_log = <<>>

\* EventSortingContext(event_types, sortkey, global_sort)
SortInit ==
    /\ SortAgainIdle
    /\ ExportIdle
    /\ RefineIdle
    /\ StageIdle
    /\ PowerIdle
    /\ FilterIdle
    /\ NormIdle
    /\ ClsIdle
    /\ CatIdle
    /\ FlowIdle
    /\ UtilIdle
    /\ WarnIdle
    /\ CtxIdle
    /\ sort_ctx \in { [event_types |-> t, sortkey |-> parse_sortkey(k), global_sort |-> g] :
                        t \in {NoneTypes, {"X"}}, k \in SortKeys, g \in BOOLEAN }
    /\ sort_queues = [q \in {} |-> <<>>]
    /\ sort_order = <<>>
    /\ sort_in = <<>>
    /\ sort_returned = <<>>
    /\ sort_drained = <<>>
    /\ sort_phase = "sort"

\* NormalizationContext(soc_frequency, ignore_crit, filterstr) and one event
FilterInit ==
    /\ SortAgainIdle
    /\ ExportIdle
    /\ RefineIdle
    /\ StageIdle
    /\ PowerIdle
    /\ NormIdle
    /\ ClsIdle
    /\ CatIdle
    /\ FlowIdle
    /\ UtilIdle
    /\ WarnIdle
    /\ CtxIdle
    /\ SortIdle
    /\ \E f \in FilterStrings, e \in FilterEvents \cup TSEvents :
          /\ e \in TSEvents => f = <<>>
          /\ event_filter = extract_eventfilters(f)
          /\ flt_in = e
    /\ flt_out = <<>>
    /\ flt_raised = "none"

\* PowerStatisticsContext.__init__
PowerInit ==
    /\ SortAgainIdle
    /\ ExportIdle
    /\ RefineIdle
    /\ StageIdle
    /\ NormIdle
    /\ ClsIdle
    /\ CatIdle
    /\ FlowIdle
    /\ UtilIdle
    /\ WarnIdle
    /\ CtxIdle
    /\ SortIdle
    /\ FilterIdle
    /\ PowerIdle

\* StageProfileChecker(StageProfile(profile_data))
StageInit ==
    /\ SortAgainIdle
    /\ ExportIdle
    /\ RefineIdle
    /\ NormIdle
    /\ ClsIdle
    /\ CatIdle
    /\ FlowIdle
    /\ UtilIdle
    /\ WarnIdle
    /\ CtxIdle
    /\ SortIdle
    /\ FilterIdle
    /\ PowerIdle
    /\ \E stages \in ProfileStages : sp_profile = ingest_profile_data(stages)
    /\ reg_idx = 0
    /\ sp_stage = ""
    /\ sp_result = "none"
    /\ sp_calls = 0

\* RefinementContext.__init__
RefineInit ==
    /\ SortAgainIdle
    /\ ExportIdle
    /\ NormIdle
    /\ ClsIdle
    /\ CatIdle
    /\ FlowIdle
    /\ UtilIdle
    /\ WarnIdle
    /\ CtxIdle
    /\ SortIdle
    /\ FilterIdle
    /\ PowerIdle
    /\ StageIdle
    /\ RefineIdle

\* TensorBoardFileTraceExporter.__init__
ExportInit ==
    /\ SortAgainIdle
    /\ NormIdle
    /\ ClsIdle
    /\ CatIdle
    /\ FlowIdle
    /\ UtilIdle
    /\ WarnIdle
    /\ CtxIdle
    /\ SortIdle
    /\ FilterIdle
    /\ PowerIdle
    /\ StageIdle
    /\ RefineIdle
    /\ trace_events = <<>>
    /\ device_data = <<>>
    /\ rank_cnt = 0
    /\ traceview_by_rank = <<>>
    /\ exp_files = {}
    /\ exp_phase = "export"

\* RCUUtilizationContext.extract_tables after the first table of the log; ext_lines
\* are the lines read after that table
DuplicateInit ==
    /\ NormIdle
    /\ ClsIdle
    /\ CatIdle
    /\ FlowIdle
    /\ WarnIdle
    /\ CtxIdle
    /\ SortIdle
    /\ SortAgainIdle
    /\ FilterIdle
    /\ PowerIdle
    /\ StageIdle
    /\ RefineIdle
    /\ ExportIdle
    /\ core_freq = 1
    /\ \E log \in FirstTables :
          LET r == read_lines(initialize_tables, ParseStart, log, 1)
          IN  /\ rcuctx = r.ctx
              /\ ext_state = r.st
              /\ ext_before = r.ctx
    /\ ext_lines = <<>>
    /\ util_fingerprints = [j \in {} |-> NoFprint]
    /\ util_job_order = <<>>
    /\ util_warnings = UtilWarnings
    /\ util_phase = "extract"
    /\ util_trace = <<>>
    /\ util_next = 1
    /\ util_output = <<>>
    /\ util_matches = [j \in {} |-> <<>>]
    /\ util_observed = [j \in {} |-> NoFprint]

SpecNorm == NormInit /\ [][NormNext]_vars
SpecLocal == LocalInit /\ [][LocalNext]_vars
SpecClassify == ClassifyInit /\ [][ClassifyNext]_vars
SpecCat == CatInit /\ [][CatNext]_vars
SpecFlow == FlowInit /\ [][FlowNext]_vars
SpecExtract == ExtractInit /\ [][ExtractNext]_vars
SpecUtil == UtilInit /\ [][UtilNext]_vars
SpecWarn == WarnInit /\ [][WarnNext]_vars
SpecCtx == CtxInit /\ [][CtxNext]_vars
SpecSort == SortInit /\ [][SortNext]_vars
SpecFilter == FilterInit /\ [][FilterNext]_vars
SpecPower == PowerInit /\ [][PowerNext]_vars
SpecStage == StageInit /\ [][StageNext]_vars
SpecRefine == RefineInit /\ [][RefineNext]_vars
SpecExport == ExportInit /\ [][ExportNext]_vars
SpecDuplicate == DuplicateInit /\ [][ExtractNext]_vars

-----------------------------------------------------------------------------
(* Claims about normalization                                              *)

NonDecreasing(TS) == \A i \in 1..4 : TS[i] <= TS[i+1]

\* C1: for every X event whose raw TS1..TS5 are 32-bit counter values, after the
\* local correction of normalize_phase1 TS1 <= TS2 <= TS3 <= TS4 <= TS5 holds.
C1_LocalCorrectionMonotone ==
    (norm_stage = "phase1" /\ norm_in.ph = "X" /\ HasTS1(norm_in)
        /\ \A i \in TSKeys : norm_in.TS[i] \in 0..(EPOCH32 - 1))
    => NonDecreasing(norm_out.TS)

\* C2: when normalize_phase2 returns an X event that carries TS1, every one of
\* TS1..TS5 has grown by OVC * 2^32 and args.OVC is set, where
\* OVC = floor((ts - E0) / (2^32 / soc_freq)) and E0 = ts0 - TS1_0 / soc_freq belongs
\* to the first TS-carrying X event phase 2 saw for the pid; that first event gets
\* OVC = 0 and keeps its values; the relative order of TS1..TS5 is kept.
C2_GlobalCorrection ==
    (norm_stage = "phase2" /\ norm_in.ph = "X" /\ HasTS1(norm_in))
    => /\ norm_in.pid \in DOMAIN norm_first
       /\ LET ts0  == norm_first[norm_in.pid][1]
              c0   == norm_first[norm_in.pid][2]
              ovc  == ((norm_in.ts - ts0) * soc_frequency + c0) \div EPOCH32
          IN  /\ norm_out.hasOVC
              /\ norm_out.OVC = ovc
              /\ \A i \in TSKeys : norm_out.TS[i] = norm_in.TS[i] + ovc * EPOCH32
              /\ (norm_in.ts = ts0 /\ norm_in.TS[1] = c0 /\ c0 < EPOCH32)
                    => (norm_out.OVC = 0 /\ norm_out.TS = norm_in.TS)
              /\ \A i, j \in TSKeys :
                    (norm_in.TS[i] <= norm_in.TS[j]) <=> (norm_out.TS[i] <= norm_out.TS[j])

\* C2 witness: phase 2 returned a later event of a pid with a non-zero overflow count
C2_Witness ==
    /\ norm_stage = "phase2"
    /\ norm_in.ph = "X"
    /\ HasTS1(norm_in)
    /\ norm_out.OVC > 0
    /\ norm_first[norm_in.pid] # <<norm_in.ts, norm_in.TS[1]>>

\* C3: when the global correction meets an event whose TS1..TS5 are not
\* non-decreasing, it fails with the assertion if ignore_crit is unset; if
\* ignore_crit is set it raises nothing, the 'ts_seq_err' warning of the context
\* has occurred, and all five TS values and OVC are written.
C3_IgnoreCritWarns ==
    (norm_stage \in {"phase2", "AssertionError"} /\ norm_in.ph = "X" /\ HasTS1(norm_in)
        /\ ~NonDecreasing(norm_in.TS))
    => IF ~ignore_crit
       THEN norm_stage = "AssertionError"
       ELSE /\ norm_stage = "phase2"
            /\ norm_out.hasOVC
            /\ \A i \in TSKeys : norm_out.TS[i] = norm_in.TS[i] + norm_out.OVC * EPOCH32
            /\ "ts_seq_err" \in DOMAIN norm_warnings
            /\ norm_warnings["ts_seq_err"]

-----------------------------------------------------------------------------
(* Claims about event classification                                       *)

\* the class of the first rule of a list that has a pattern in the name, "none" without one
FirstMatch(rules, name) ==
    LET hits == { i \in 1..Len(rules) : \E pat \in rules[i].pats : Contains(name, pat) }
    IN  IF hits = {} THEN "none"
        ELSE rules[CHOOSE i \in hits : \A j \in hits : i <= j].class

WaitDataPats ==
    { <<"Wdone", "DmaI">>, <<"Wait", "for", "Data", "Avail", "Notice">>, <<"R5", "Wait", "DATA">> }

CommRules(wait_data) ==
    << [class |-> "MAIU_HDMA_PROTOCOL_WAIT_DATA", pats |-> wait_data],
       [class |-> "MAIU_HDMA_PROTOCOL_WAIT_ACK",
        pats |-> { <<"Wait", "for", "ACK">>, <<"R5", "Wait", "ACK">> }],
       [class |-> "MAIU_HDMA_PROTOCOL_SIGNAL_ACK",
        pats |-> { <<"Send", "ACK", "Instruction">>, <<"R5", "Send", "ACK">> }],
       [class |-> "MAIU_HDMA_PROTOCOL_SIGNAL_DATA",
        pats |-> { <<"Send", "Instruction">>, <<"HCOLL", "Signal">>, <<"R5", "Send", "DATA">> }],
       [class |-> "MAIU_HDMA_PROTOCOL_MONITOR_NOTICE",
        pats |-> { <<"Wait", "for", "Notice">>, <<"Wait", "for", "Delivery", "Notice">> }] >>

HostDmaOrHcoll(name) == Contains(name, <<"Host", "DMA">>) \/ Contains(name, <<"HCOLL">>)

\* the class the statement of C4 gives a collective event
C4_Stated(name, base) ==
    LET m == FirstMatch(CommRules(WaitDataPats), name)
    IN  IF m # "none" THEN m
        ELSE IF base = "DATA_OUT"
             THEN IF HostDmaOrHcoll(name) THEN "MAIU_HDMA_PROTOCOL_SEND_DATA"
                  ELSE "MAIU_P2PRDMA_PROTOCOL_SEND_DATA"
        ELSE IF base = "DATA_IN"
             THEN IF HostDmaOrHcoll(name) THEN "MAIU_HDMA_PROTOCOL_RECV_DATA"
                  ELSE "MAIU_P2PRDMA_PROTOCOL_RECV_DATA"
        ELSE base

\* the class the amended statement of C4 gives a collective event
C4_Amended(name, base) ==
    LET gather == <<"Wait", "for", "Notice", "(gather", "notifications)">>
        m == FirstMatch(CommRules(WaitDataPats \cup {gather}), name)
    IN  IF HostDmaOrHcoll(name)
        THEN IF m # "none" THEN m
             ELSE IF base = "DATA_OUT" THEN "MAIU_HDMA_PROTOCOL_SEND_DATA"
             ELSE IF base = "DATA_IN" THEN "MAIU_HDMA_PROTOCOL_RECV_DATA"
             ELSE base
        ELSE IF Contains(name, <<"DLM", "Wait">>) THEN base
        ELSE IF Contains(name, <<"Set", "BcList">>) \/ Contains(name, <<"Xseg", "to", "rank">>)
             THEN "MAIU_PROTOCOL_SERIAL"
        ELSE IF base = "DATA_OUT" THEN "MAIU_P2PRDMA_PROTOCOL_SEND_DATA"
        ELSE IF base = "DATA_IN" THEN "MAIU_P2PRDMA_PROTOCOL_RECV_DATA"
        ELSE base

C4_Classified ==
    cls_stage \in {"returned", "AssertionError"} /\ cls_event.hasName
        /\ is_category(cls_event, "acc_collective")

C5_RuleClass(event) ==
    IF Contains(event.name, <<"AIU", "Roundtrip">>) THEN "ROUNDTRIP_AIU"
    ELSE IF is_category(event, "acc_supernode_exec") \/ is_category(event, "acc_supernode_launch")
    THEN "ROUNDTRIP_FLEX"
    ELSE IF is_category(event, "acc_barrier") THEN "MAIU_BARRIER"
    ELSE IF is_category(event, "acc_rdma_prep_sync") THEN "MAIU_WIREUP"
    ELSE IF is_category(event, "acc_data_convert") THEN "SEN_DATA_CONVERT"
    ELSE IF is_category(event, "acc_compute_prep") THEN "COMPUTE_PREP"
    ELSE IF is_category(event, "acc_kernel") THEN "COMPUTE_EXEC"
    ELSE IF is_category(event, "acc_datatransfer_HtoD") THEN "DATA_IN"
    ELSE IF is_category(event, "acc_datatransfer_DtoH") THEN "DATA_OUT"
    ELSE "OTHER"

\* C5: get_event_class returns the class of the dialect rules (a later rule overrides an
\* earlier one, OTHER without a match), refined by the communication rules for a
\* collective event; in particular the FLEX event named 'Cmpt Exec add_0' that carries
\* TS1 gets COMPUTE_EXEC.
C5_EventClassFromRules ==
    /\ (cls_stage = "returned" /\ cls_event.hasName)
          => cls_result = IF is_category(cls_event, "acc_collective")
                          THEN C4_Amended(cls_event.name, C5_RuleClass(cls_event))
                          ELSE C5_RuleClass(cls_event)
    /\ (cls_stage # "input" /\ cls_event.dialect = "FLEX" /\ cls_event.hasTS1
            /\ cls_event.name = <<"Cmpt", "Exec", "add_0">>)
          => cls_result = "COMPUTE_EXEC"

-----------------------------------------------------------------------------
(* Claims about the two-phase categorizer                                  *)

\* the ts of the events of the first pass that were classified COMPUTE_EXEC in a batch
KernelTs(batch) ==
    { cat_trace[i].ts : i \in { j \in 1..Len(cat_trace) :
          cat_trace[j].class = "COMPUTE_EXEC" /\ cat_trace[j].batch = batch } }

StrictlyBetween(ts, S) ==
    S # {} /\ (\E a \in S : a < ts) /\ (\E b \in S : ts < b)

\* C6: an accelerator X event collected as DATA_IN / DATA_OUT leaves the second pass as
\* MAIU_PROTOCOL_RECV_DATA / MAIU_PROTOCOL_SEND_DATA if and only if its ts lies strictly
\* between the smallest and the largest COMPUTE_EXEC ts collected for its batch, and else
\* keeps its class; with and without zero_align.
C6_SecondPassBetweenKernels ==
    \A k \in 1..Len(cat_output) :
        LET o == cat_output[k]
        IN  (o.src > 0 /\ cat_trace[o.src].ph = "X" /\ is_acc_event(cat_trace[o.src])
                /\ cat_trace[o.src].class \in {"DATA_IN", "DATA_OUT"})
            => LET e == cat_trace[o.src]
               IN  o.class = IF StrictlyBetween(e.ts, KernelTs(e.batch))
                             THEN IF e.class = "DATA_IN" THEN "MAIU_PROTOCOL_RECV_DATA"
                                  ELSE "MAIU_PROTOCOL_SEND_DATA"
                             ELSE e.class

\* the minimum ts over all events of the first pass
TraceMinTs ==
    CHOOSE m \in { cat_trace[i].ts : i \in 1..Len(cat_trace) } :
        \A i \in 1..Len(cat_trace) : m <= cat_trace[i].ts

\* C7: with zero_align every event that leaves the second pass, X or not, has the ts it
\* came with minus the minimum ts over all events of the first pass, so it is >= 0 and
\* distances are kept; without zero_align the ts is unchanged.
C7_ZeroAlignAllEvents ==
    \A k \in 1..Len(cat_output) :
        LET o == cat_output[k]
        IN  o.src > 0
            => IF do_zero_align = 1
               THEN o.ts = cat_trace[o.src].ts - TraceMinTs /\ o.ts >= 0
               ELSE o.ts = cat_trace[o.src].ts

-----------------------------------------------------------------------------
(* Claims about launch flows                                               *)

SynthStarts == { k \in 1..Len(flow_output) : flow_output[k].synth /\ flow_output[k].ph = "s" }
SynthFinishes == { k \in 1..Len(flow_output) : flow_output[k].synth /\ flow_output[k].ph = "f" }

\* C8: every flow start the context creates has exactly one created flow finish with the
\* same id, and the ts of that finish is not smaller than the ts of the start.
C8_FlowFinishNotBeforeStart ==
    \A k \in SynthStarts :
        LET F == { j \in SynthFinishes : flow_output[j].id = flow_output[k].id }
        IN  /\ Cardinality(F) = 1
            /\ \A j \in F : flow_output[j].ts >= flow_output[k].ts

InputFlowIds ==
    { flow_trace[i].id : i \in { j \in 1..Len(flow_trace) : flow_trace[j].ph \in {"s", "f"} } }

ObservedCorrelations ==
    { flow_trace[i].corr : i \in { j \in 1..Len(flow_trace) :
          flow_trace[j].ph = "X" /\ flow_trace[j].corr # -1 } }

\* C9: every id the context gives a created flow is new: it is no id of a flow event of
\* the input, no correlation id of the input, and no id of another created flow.
C9_NewFlowIdsAreNew ==
    \A k \in SynthStarts :
        /\ flow_output[k].id \notin InputFlowIds
        /\ flow_output[k].id \notin ObservedCorrelations
        /\ \A j \in SynthStarts : j # k => flow_output[j].id # flow_output[k].id

\* C10: a kernel event of the collection phase that is out of range (its end, less the
\* 0.001 us the code subtracts, is after the end of the schedule wait, or not after the
\* recorded last_ts) raises nothing, whatever the order of the events; it is logged
\* and last_ts and last_pid_tid of its correlation id stay as they were.
C10_OutOfRangeKernelIgnored ==
    (flow_phase \in {"collect", "AssertionError"} /\ Len(flow_trace) > 0)
    => LET event == flow_trace[Len(flow_trace)]
           q == IF event.corr \in DOMAIN flow_before THEN flow_before[event.corr]
                ELSE FlowRecord(event)
           last_ts == event.ts + event.dur - TS_EPS
           out_of_range ==
               \/ q.schedwait # NoFlowEvent /\ last_ts > q.schedwait.ts + q.schedwait.dur
               \/ last_ts <= q.last_ts
       IN  (event.ph = "X" /\ event.cat = "kernel" /\ event.corr > 0
               /\ ~launch_pattern(event.name) /\ out_of_range)
           => /\ flow_phase = "collect"
              /\ flow_warned > 0
              /\ flow_queues[event.corr].last_ts = q.last_ts
              /\ flow_queues[event.corr].last_tid = q.last_tid

\* the flow starts of the first pass with id c, by their position in the trace
CollectedStarts(c) == { i \in 1..Len(flow_trace) : flow_trace[i].ph = "s" /\ flow_trace[i].id = c }

\* the flow start that is src of id c after the first pass: the last one collected
CollectedSrc(c) == flow_trace[CHOOSE i \in CollectedStarts(c) : \A j \in CollectedStarts(c) : j <= i]

\* what one call of launch_flow_create_missing appended to the output
ApplyReturned == SubSeq(flow_output', Len(flow_output) + 1, Len(flow_output'))

-----------------------------------------------------------------------------
(* Claims about the utilization engine                                     *)

FracAdd(a, b) == Frac(a.num * b.den + b.num * a.den, a.den * b.den)

\* the pairs (job, index) of a similarity the first drain computed
FirstDrainMatches ==
    { p \in (DOMAIN util_matches) \X (1..Len(rcuctx.fp_order)) : p[2] <= Len(util_matches[p[1]]) }

\* the three terms of the score of an observed fingerprint O and a table fingerprint T
SequenceTerm(O, T) == IF Contains(T.fprint_data, O.fprint_data) THEN Frac(2, 4) ELSE Frac(1, 4)
CountTerm(O, T) == IF O.dataitems <= T.dataitems THEN Frac(O.dataitems, 2 * T.dataitems) ELSE Frac(0, 1)
TimeTerm(O, T) == IF T.totaltime <= O.totaltime THEN Frac(T.totaltime, 2 * O.totaltime) ELSE Frac(0, 1)
WeightedSum(O, T) == FracAdd(SequenceTerm(O, T), FracAdd(CountTerm(O, T), TimeTerm(O, T)))

\* both quotients of the score are defined
QuotientsDefined(O, T) == T.dataitems > 0 /\ O.totaltime > 0

ScoreOf(job, k) == similarity(util_observed[job], rcuctx.fingerprints[k])

\* the uncertain_match warning has an entry for the job
WarnedJob(job) == \E entry \in util_warnings.uncertain_match.joblist : entry[1] = job

\* the first drain has run (it returned or it raised)
AfterFirstDrain == util_phase \notin {"idle", "extract", "collect"}

\* what the claim says of one job: it is assigned the table of a key k whose score no
\* table exceeds; it has a warning if that score is below 0.8, and if the best score of
\* the other tables is within 0.2 of it
MatchedAsClaimed(job) ==
    \E k \in DOMAIN rcuctx.fingerprints :
        /\ util_fingerprints[job] = rcuctx.fingerprints[k]
        /\ \A k2 \in DOMAIN rcuctx.fingerprints : ~FracLess(ScoreOf(job, k), ScoreOf(job, k2))
        /\ below_08(ScoreOf(job, k)) => WarnedJob(job)
        /\ (\E k2 \in DOMAIN rcuctx.fingerprints \ {k} :
               isclose_tolerance(ScoreOf(job, k), ScoreOf(job, k2))) => WarnedJob(job)

\* C13: at drain of the utilization stage every job for which at least one ideal-cycle
\* table exists is assigned a table whose similarity to the observed fingerprint of
\* the job is maximal among all tables; a warning is recorded for the job when that
\* score is below 0.8, and when the two best scores are within 0.2 of each other.
C13_BestTableAssigned ==
    (AfterFirstDrain /\ DOMAIN rcuctx.fingerprints # {})
    => \A job \in DOMAIN util_observed : MatchedAsClaimed(job)

\* the same for the drains that return
C13_BestTableAssignedIfReturned ==
    (AfterFirstDrain /\ util_phase # "ZeroDivisionError" /\ DOMAIN rcuctx.fingerprints # {})
    => \A job \in DOMAIN util_observed : MatchedAsClaimed(job)

\* what one call of compute_utilization appended to the output
UtilReturned == SubSeq(util_output', Len(util_output) + 1, Len(util_output'))

\* the ideal cycles of the kernel of the event in the table its job is assigned to
\* (0: no matching ideal cycles)
IdealCyclesOf(event) ==
    IF event.ph = "X" /\ is_acc_event(event) /\ is_acc_kernel(event)
    THEN get_cycles(rcuctx, extract_kernel_from_event_name(event),
                    fprint_get(util_fingerprints[generate_fprint_jobhash(event)]))
    ELSE 0

\* a 'PT Active' counter at ts with the value v
IsPtCounter(e, ts, v) ==
    e.ph = "C" /\ e.name = <<"PT", "Active">> /\ e.ts = ts /\ e.value.err = "" /\ FracEq(e.value, v)

\* what the claim says of a kernel event with the ideal cycles c, the unclamped ratio
\* being (c / core_freq) / dur
PtActiveAsClaimed(event, c, ret) ==
    LET ratio == Frac(c, event.dur * core_freq)
        over == ratio.num > ratio.den
        pt == ret[1].pt_active
    IN  /\ Len(ret) >= 2
        /\ pt.err = ""
        /\ FracEq(pt, IF over THEN Frac(1, 1) ELSE ratio)
        /\ pt.num >= 0 /\ pt.num <= pt.den
        /\ util_warnings'.util_100 = util_warnings.util_100 + (IF over THEN 1 ELSE 0)
        /\ IsPtCounter(ret[2], event.ts, Frac(100 * pt.num, pt.den))
        /\ IF pt.num # 0
           THEN Len(ret) = 3 /\ IsPtCounter(ret[3], event.ts + event.dur, Frac(0, 1))
           ELSE Len(ret) = 2

\* C14 as stated: for every kernel event for which matching ideal cycles exist
\* compute_utilization sets args.pt_active = min(1, (ideal_cycles/core_freq)/dur), with
\* 0 <= pt_active <= 1, increments util_100 exactly when the unclamped ratio exceeds 1,
\* and emits after the event a 'PT Active' counter at event.ts with the value
\* 100*pt_active and, only when that value is not zero, a second counter at
\* event.ts + event.dur with the value 0.
C14_PtActiveAsStated ==
    [][(util_phase = "apply" /\ util_next' = util_next + 1)
       => LET event == util_trace[util_next]
          IN  IdealCyclesOf(event) > 0
              => /\ event.dur > 0
                 /\ PtActiveAsClaimed(event, IdealCyclesOf(event), UtilReturned)]_vars

\* C14 amended: the same for the events of a duration above zero; for an event of
\* duration zero args.pt_active is not set, util_100 is not incremented and the single
\* counter at event.ts with the value 0 is emitted.
C14_PtActiveOfPositiveDur ==
    [][(util_phase = "apply" /\ util_next' = util_next + 1)
       => LET event == util_trace[util_next]
              ret == UtilReturned
          IN  IdealCyclesOf(event) > 0
              => IF event.dur > 0
                 THEN PtActiveAsClaimed(event, IdealCyclesOf(event), ret)
                 ELSE /\ Len(ret) = 2
                      /\ ret[1].pt_active = NoFrac
                      /\ util_warnings'.util_100 = util_warnings.util_100
                      /\ IsPtCounter(ret[2], event.ts, Frac(0, 1))]_vars

\* the second pass has clamped one kernel to 1 and given another a pt_active below 1
C14_Witness ==
    /\ util_warnings.util_100 > 0
    /\ \E i \in 1..Len(util_output) :
          /\ util_output[i].ph = "X" /\ util_output[i].pt_active.err = ""
          /\ util_output[i].pt_active.num < util_output[i].pt_active.den
          /\ i + 2 <= Len(util_output)
          /\ util_output[i + 2].ph = "C" /\ util_output[i + 2].ts = util_output[i].ts + util_output[i].dur

\* the sum of the component i of the rows of the categories cats
RECURSIVE SumRows(_, _, _)
SumRows(rows, cats, i) ==
    IF cats = {} THEN 0
    ELSE LET c == CHOOSE x \in cats : TRUE
         IN  rows[c][i] + SumRows(rows, cats \ {c}, i)

\* the kernel events of the second pass so far that were accumulated into the table
\* of the fingerprint key fp and the pid
AccumulatedInto(fp, pid) ==
    { i \in 1..(util_next - 1) :
        LET event == util_trace[i]
        IN  /\ event.ph = "X" /\ is_acc_event(event) /\ is_acc_kernel(event)
            /\ event.pid = pid
            /\ fprint_get(util_fingerprints[generate_fprint_jobhash(event)]) = fp }

\* C15: after any sequence of accumulate_categories calls, in each (pid, fingerprint)
\* category table the 'Total' row is the component-wise sum of (duration, ideal, calls)
\* over all category rows, and Total.calls is the number of kernel events accumulated
\* into that table, whatever category names the rows of the compiler log produced.
C15_TotalRowIsSum ==
    util_phase = "apply"
    => \A h \in DOMAIN rcuctx.categories :
          LET rows == rcuctx.categories[h]
              cats == DOMAIN rows \ {"Total"}
          IN  /\ \A i \in 1..3 : rows["Total"][i] = SumRows(rows, cats, i)
              /\ rows["Total"][3] = Cardinality(AccumulatedInto(h[1], h[2]))

\* the lines of the log read so far, by their kind
IsStartLine(n) == ext_lines[n].kind = "start"
IsEndLine(n) == ext_lines[n].kind = "end"
IsKernelRow(n) ==
    /\ ext_lines[n].kind = "data" /\ ~ext_lines[n].ignored
    /\ ext_lines[n].kernel_and_cat[1] # "Total"

\* the kernel of a kernel row, as the tables name it
RowKernel(n) == <<ext_lines[n].kernel_and_cat[1], "Cmpt", "Exec">>

\* the start lines before line n whose table is open when line n is read
OpenStarts(n) ==
    { i \in 1..(n - 1) : IsStartLine(i) /\ \A j \in (i + 1)..(n - 1) : ~IsEndLine(j) }

\* a table contains exactly the kernel rows of the lines in rows: every entry is one of
\* the rows, and every row with a cycle count is an entry
ContainsExactly(table, rows) ==
    /\ \A k \in DOMAIN table : \E n \in rows : RowKernel(n) = k /\ ext_lines[n].cycles = table[k]
    /\ \A n \in rows : ext_lines[n].cycles # 0 => RowKernel(n) \in DOMAIN table

\* every start line whose table is open when an end line is read has its table
\* registered by that end line, with exactly the kernel rows read since the start line
C16_StartedTablesRegistered ==
    LET n == Len(ext_lines)
    IN  (n > 0 /\ IsEndLine(n))
        => \A i \in OpenStarts(n) :
              \E key \in DOMAIN rcuctx.kernel_cycles :
                 ContainsExactly(rcuctx.kernel_cycles[key],
                                 { r \in (i + 1)..(n - 1) : IsKernelRow(r) })

\* a kernel row read while no table is open changes no table
C16_RowsOutsideIgnored ==
    LET n == Len(ext_lines)
    IN  (n > 0 /\ IsKernelRow(n) /\ OpenStarts(n) = {})
        => rcuctx = ext_before

\* no line is read after a DSM-AutoPilot BEGIN line
C16_StopsAtAutopilot ==
    \A n \in 1..(Len(ext_lines) - 1) : ext_lines[n].kind # "autopilot"

\* C16: for any sequence of compiler-log lines, every 'Ideal/Total Cycles' line begins
\* a table that is registered when the next '====== Perf Summary End ======' line is
\* read and that contains exactly the kernel rows read since that start line; kernel
\* rows read while no table is active are added to no table; and no line after a
\* 'DSM-AutoPilot BEGIN' line is processed.
C16_TablesFromLog ==
    util_phase = "extract"
    => C16_StartedTablesRegistered /\ C16_RowsOutsideIgnored /\ C16_StopsAtAutopilot


(***************************************************************************)
(* Claims about the warning accumulator                                    *)
(***************************************************************************)
\* the constructor has run with the arguments tw_args
Constructed == tw_self.raised # "unbuilt" /\ tw_last.call = "__init__"

\* the keys of the placeholders, of the data and of the reducers given
PlaceholderList == findall_placeholders(tw_args.text)
PlaceholderKeys == SeqRange(PlaceholderList)
DataKeys == DOMAIN tw_args.data
ReducerKeys == DOMAIN tw_args.update_fn

\* C17 as stated: constructing a TraceWarning succeeds if and only if the placeholders
\* of the template, the data keys and the reducer keys are identical sets; in every
\* other case the constructor raises, ValueError when the number of placeholders
\* differs from the number of data keys and KeyError when a key of one set is missing
\* in another.
C17_ConstructorAsStated ==
    Constructed
    => /\ tw_self.raised = "" <=> (PlaceholderKeys = DataKeys /\ DataKeys = ReducerKeys)
       /\ tw_self.raised = "ValueError"
             => Len(PlaceholderList) # Cardinality(DataKeys)
       /\ tw_self.raised = "KeyError"
             => ~(PlaceholderKeys = DataKeys /\ DataKeys = ReducerKeys)

\* C17 amended: the constructor succeeds if and only if the template has as many
\* placeholders as there are data keys, the placeholders and the data keys are the
\* same set and every reducer key is one of them; a key without reducer gets
\* int.__add__, so that the three sets are identical in the constructed object.  It
\* raises ValueError exactly when the two numbers differ and KeyError otherwise.
C17_ConstructorChecks ==
    Constructed
    => /\ tw_self.raised = ""
             <=> /\ Len(PlaceholderList) = Cardinality(DataKeys)
                 /\ PlaceholderKeys = DataKeys
                 /\ ReducerKeys \subseteq DataKeys
       /\ tw_self.raised = "ValueError" <=> Len(PlaceholderList) # Cardinality(DataKeys)
       /\ tw_self.raised \in {"", "ValueError", "KeyError"}
       /\ tw_self.raised = ""
             => /\ DOMAIN tw_self.update_fn = DataKeys
                /\ DOMAIN tw_self.args_list = DataKeys
                /\ \A k \in DataKeys :
                      tw_self.update_fn[k] = IF k \in ReducerKeys THEN tw_args.update_fn[k]
                                             ELSE "int.__add__"

\* a warning constructed with a reducer for one of its two keys only
C17_Witness ==
    /\ Constructed
    /\ tw_self.raised = ""
    /\ Cardinality(DataKeys) = 2
    /\ Cardinality(ReducerKeys) = 1


\* update has been called on the constructed warning; tw_last holds the call
Updated == tw_last.call = "update"

\* the keys and the new values of the data update was called with
UpdateKeys == { tw_last.data[i][1] : i \in 1..Len(tw_last.data) }
NewValue(k) == tw_last.data[CHOOSE i \in 1..Len(tw_last.data) : tw_last.data[i][1] = k][2]

\* the reducer of key k according to the claim: the one given, else chosen by the type
\* of the stored value
StatedReducer(k) ==
    IF k \in ReducerKeys THEN tw_args.update_fn[k]
    ELSE CASE tw_last.before.args_list[k].type = "int" -> "int.__add__"
           [] tw_last.before.args_list[k].type = "float" -> "max"
           [] OTHER -> "set.union"

\* the reducer of key k in the code: the one given, else int.__add__
DefaultedReducer(k) ==
    IF k \in ReducerKeys THEN tw_args.update_fn[k] ELSE "int.__add__"

\* has_warning() after the call: it was true before, or the call returned a count > 0
HasWarningAfter ==
    has_warning(tw_self) <=> (has_warning(tw_last.before)
                              \/ (tw_last.raised = "" /\ tw_last.result > 0))

\* C18 as stated: update(data) replaces, for each key of data, the stored value by
\* reducer(stored, new), leaves all other keys unchanged and returns the number of keys
\* updated; a key for which no reducer was given uses the default reducer selected by
\* the type of its value (addition for int, max for other numbers, set union for
\* sets); has_warning() is false until the first update that changes at least one key
\* and true ever after.
C18_UpdateAsStated ==
    /\ Constructed => ~has_warning(tw_self)
    /\ (Updated /\ UpdateKeys \subseteq DataKeys)
       => /\ \A k \in DataKeys :
                tw_self.args_list[k] =
                   IF k \in UpdateKeys
                   THEN call_update_fn(StatedReducer(k), tw_last.before.args_list[k],
                                       NewValue(k)).value
                   ELSE tw_last.before.args_list[k]
          /\ tw_last.raised = ""
          /\ tw_last.result = Cardinality(UpdateKeys)
          /\ HasWarningAfter

\* C18 amended: a key without reducer uses int.__add__ whatever the type of its value.
\* update handles the items of data in order; it raises KeyError at a key that is no
\* data key and TypeError where the reducer does not accept the values, and then the
\* keys handled before stay updated and has_warning() is unchanged.  When it returns,
\* every key of data holds reducer(stored, new), the other keys are unchanged and the
\* result is the number of keys of data.  has_warning() is false until the first
\* update that returns a count above 0 and true ever after.
C18_UpdateByReducer ==
    /\ Constructed => ~has_warning(tw_self)
    /\ Updated
       => /\ tw_last.raised \in {"", "KeyError", "TypeError"}
          /\ tw_last.raised = ""
                => /\ UpdateKeys \subseteq DataKeys
                   /\ \A k \in DataKeys :
                         tw_self.args_list[k] =
                            IF k \in UpdateKeys
                            THEN call_update_fn(DefaultedReducer(k),
                                                tw_last.before.args_list[k],
                                                NewValue(k)).value
                            ELSE tw_last.before.args_list[k]
                   /\ \A k \in UpdateKeys :
                         call_update_fn(DefaultedReducer(k), tw_last.before.args_list[k],
                                        NewValue(k)).raised = ""
                   /\ tw_last.result = Cardinality(UpdateKeys)
          /\ tw_last.raised = "KeyError" => ~(UpdateKeys \subseteq DataKeys)
          /\ tw_last.raised = "TypeError"
                => \E k \in UpdateKeys \cap DataKeys :
                      call_update_fn(DefaultedReducer(k), tw_last.before.args_list[k],
                                     NewValue(k)).raised = "TypeError"
          /\ tw_last.raised # ""
                => /\ \A k \in DataKeys \ UpdateKeys :
                         tw_self.args_list[k] = tw_last.before.args_list[k]
                   /\ has_warning(tw_self) = has_warning(tw_last.before)
          /\ HasWarningAfter

\* an update of a warning with two keys that returned 1: the key without reducer was
\* added to, the other key kept its value
C18_Witness ==
    /\ Updated
    /\ tw_last.raised = ""
    /\ tw_last.result = 1
    /\ Cardinality(DataKeys) = 2
    /\ \E k \in UpdateKeys : k \notin ReducerKeys /\ tw_self.args_list[k] = IntOf(2)
    /\ has_warning(tw_self)


\* the number of records the log holds for the warning n, and their levels
LogCount(n) == Cardinality({ i \in 1..Len(ctx_log) : ctx_log[i].name = n })
LogLevels(n) == { ctx_log[i].level : i \in { j \in 1..Len(ctx_log) : ctx_log[j].name = n } }

\* the context and all its warnings are gone
TornDown == ~ctx_alive /\ ctx_deleted = DOMAIN ctx_warnings

\* a warning that was never updated is never logged
NeverUpdatedNeverLogged ==
    \A n \in DOMAIN ctx_warnings : ~has_warning(ctx_warnings[n]) => LogCount(n) = 0

\* C19: over the lifetime of a context and its warnings, each warning with
\* has_warning() == true is logged exactly once at teardown (at WARN, or ERROR for the
\* critical class), a warning that was never updated is never logged, and running the
\* teardown hook again logs nothing more.
C19_LoggedOnceAtTeardown ==
    /\ NeverUpdatedNeverLogged
    /\ \A n \in DOMAIN ctx_warnings :
       /\ LogCount(n) <= 1
       /\ (TornDown /\ has_warning(ctx_warnings[n]))
          => /\ LogCount(n) = 1
             /\ LogLevels(n) = {ctx_warnings[n].warn_level}


(***************************************************************************)
(* Claims about the sort stage                                             *)
(***************************************************************************)
\* the events sort buffered: those given that it did not return at once
Buffered == SeqRange(sort_in) \ SeqRange(sort_returned)

\* the bucket of an event: its (pid, tid), one bucket for all with global_sort
BucketOf(e) ==
    IF sort_ctx.global_sort THEN <<>>
    ELSE <<e.pid, IF "tid" \in DOMAIN e THEN e.tid ELSE 0>>

\* field i of the composite key of an event, a missing field being 0
KeyField(e, i) ==
    IF sort_ctx.sortkey[i][1] \in DOMAIN e THEN e[sort_ctx.sortkey[i][1]] ELSE 0

\* field i is descending
Descending(i) == sort_ctx.sortkey[i][2] = -1

\* x comes before y in the lexicographic order of the composite key, each field in its
\* own direction
ComesBefore(x, y) ==
    \E i \in 1..Len(sort_ctx.sortkey) :
       /\ IF Descending(i) THEN KeyField(x, i) > KeyField(y, i)
          ELSE KeyField(x, i) < KeyField(y, i)
       /\ \A j \in 1..(i - 1) : KeyField(x, j) = KeyField(y, j)

SameKey(x, y) == \A i \in 1..Len(sort_ctx.sortkey) : KeyField(x, i) = KeyField(y, i)

\* C20: EventSortingContext.drain emits the buffered events of each (pid, tid) bucket
\* (a single bucket when global_sort is set) contiguously and ordered lexicographically
\* by the composite sort key, each field in its own direction, with a missing field
\* treated as 0 and events of equal key kept in their insertion order.
C20_DrainSortedPerBucket ==
    sort_phase = "drained"
    => LET d == sort_drained
       IN  /\ SeqRange(d) = Buffered
           /\ Len(d) = Cardinality(Buffered)
           /\ \A i, j, k \in 1..Len(d) :
                 (i < j /\ j < k /\ BucketOf(d[i]) = BucketOf(d[k]))
                 => BucketOf(d[j]) = BucketOf(d[i])
           /\ \A i, j \in 1..Len(d) :
                 (i < j /\ BucketOf(d[i]) = BucketOf(d[j]))
                 => /\ ~ComesBefore(d[j], d[i])
                    /\ SameKey(d[i], d[j]) => d[i].seq < d[j].seq

\* a drain of one bucket with a two-field key that moved a later event to the front
\* and kept two events of equal key in their order
C20_Witness ==
    /\ sort_phase = "drained"
    /\ Len(sort_ctx.sortkey) = 2
    /\ Len(sort_drained) = 3
    /\ \A i \in 1..3 : BucketOf(sort_drained[i]) = BucketOf(sort_drained[1])
    /\ \E i, j \in 1..3 : i < j /\ sort_drained[i].seq > sort_drained[j].seq
    /\ \E i, j \in 1..3 : i < j /\ SameKey(sort_drained[i], sort_drained[j])
    /\ \E i \in 1..3 : "dur" \notin DOMAIN sort_drained[i]


(***************************************************************************)
(* Claims about normalize_phase1 on whole events                           *)
(***************************************************************************)
\* normalize_phase1 has been called on the X event flt_in
Phase1CalledOnX == flt_raised \notin {"idle", "none"} /\ flt_in["ph"].s = <<"X">>

\* the event the filters see: attr moved to args, counters converted, name unified
FilterView ==
    LET e == hex_to_int_str(attr_to_args(flt_in))
    IN  dict_set(e, "name", StrVal(name_unification(e["name"].s)))

\* the value stored at a dotted path, when every key of the path is present
Missing == [kind |-> "missing", s |-> <<>>, n |-> 0, d |-> <<>>]
RECURSIVE ValueAt(_, _, _)
ValueAt(e, path, i) ==
    IF i > Len(path) THEN e
    ELSE IF e.kind = "dict" /\ Spelled(path[i]) \in DOMAIN e.d
    THEN ValueAt(e.d[Spelled(path[i])], path, i + 1)
    ELSE Missing

FilterValue(item) == ValueAt(DictVal(FilterView), str_split(item[1], "."), 1)

\* the regex of the filter matches the string stored at its complete path
FilterMatches(item) ==
    FilterValue(item).kind = "str" /\ Contains(FilterValue(item).s, item[2])

Dropped == flt_raised = "" /\ flt_out = <<>>

\* C21: normalize_phase1 drops an X event (returns no event) if and only if at least
\* one configured filter path:regex has its regex match the string stored at the
\* complete dotted path of the event; a filter whose dotted path is not fully present
\* in the event neither drops the event nor raises.
C21_DroppedIffFilterMatches ==
    Phase1CalledOnX
    => /\ Dropped <=> \E i \in 1..Len(event_filter) : FilterMatches(event_filter[i])
       /\ (\A i \in 1..Len(event_filter) : FilterValue(event_filter[i]) = Missing)
          => (flt_raised = "" /\ flt_out # <<>>)

\* normalize_phase1 has returned the X event flt_in, which carries TS1..TS5
ReturnedWithTS ==
    /\ Phase1CalledOnX
    /\ flt_raised = "" /\ flt_out # <<>>
    /\ "args" \in DOMAIN flt_in
    /\ \A i \in 1..5 : TSName[i] \in DOMAIN flt_in["args"].d

\* the integer values of the input fields and the strings of the returned fields
InputTS == [i \in 1..5 |-> int_base0(flt_in["args"].d[TSName[i]].s).n]
OutputArgs == flt_out[1]["args"].d
OutputTSString == [i \in 1..5 |-> OutputArgs[TSName[i]].s]
IsDecimalString(s) == IsDigits(s, 10) /\ (Len(s) = 1 \/ s[1] # "0")
OutputTS == [i \in 1..5 |-> digits_value(OutputTSString[i], 10)]


\* the fields whose input value is smaller than the corrected value of the field before
SmallerThanCorrected == { i \in 2..5 : InputTS[i] < OutputTS[i - 1] }
FirstSmaller == CHOOSE i \in SmallerThanCorrected : \A j \in SmallerThanCorrected : i <= j

\* C22: after normalize_phase1 of an X event carrying TS1..TS5 each TSi is the decimal
\* string of its integer value; a non-decreasing input keeps its values and gets no
\* TSxOF key; otherwise args.TSxOF names the first field whose value was smaller than
\* its corrected predecessor, and that field is raised by exactly one epoch of the
\* 32-bit counter (2^32 cycles, EPOCH32 in the unit of the model).
C22_CountersConvertedAndCorrected ==
    ReturnedWithTS
    => /\ \A i \in 1..5 : /\ OutputArgs[TSName[i]].kind = "str"
                          /\ IsDecimalString(OutputTSString[i])
       /\ IF NonDecreasing(InputTS)
          THEN OutputTS = InputTS /\ "TSxOF" \notin DOMAIN OutputArgs
          ELSE /\ SmallerThanCorrected # {}
               /\ "TSxOF" \in DOMAIN OutputArgs
               /\ OutputArgs["TSxOF"] = StrVal(<<TSName[FirstSmaller]>>)
               /\ OutputTS[FirstSmaller] = InputTS[FirstSmaller] + EPOCH32

\* a hexadecimal TS3 below TS2 has been raised by one epoch and named in TSxOF
C22_Witness ==
    /\ ReturnedWithTS
    /\ flt_in["args"].d["TS2"].s = <<"0", "x", "b">>
    /\ flt_in["args"].d["TS3"].s = <<"0", "x", "2">>
    /\ OutputTSString[2] = <<"1", "1">>
    /\ OutputTSString[3] = <<"6">>
    /\ "TSxOF" \in DOMAIN OutputArgs
    /\ OutputArgs["TSxOF"].s = <<"TS3">>


(***************************************************************************)
(* Claims about the power statistics                                       *)
(***************************************************************************)
\* the power samples among the events fed so far, in the order they were fed
IsPowerSample(e) == e.ph = "C" /\ e.name = <<"Power">> /\ e.ts # NoTs /\ e.watts # NoWatts
PowerSamples == SelectSeq(pwr_in, IsPowerSample)

\* the interval of the pair of consecutive samples i, i + 1
PairInterval(i) == <<PowerSamples[i].ts, PowerSamples[i + 1].ts, PowerSamples[i].watts>>
RisingPairs == { i \in 1..(Len(PowerSamples) - 1) : PowerSamples[i + 1].ts > PowerSamples[i].ts }

\* the kernel events with a positive duration among the events fed so far
KernelsWithDur ==
    { i \in 1..Len(pwr_in) : /\ pwr_in[i].ph = "X"
                             /\ Contains(pwr_in[i].name, <<"Cmpt", "Exec">>)
                             /\ pwr_in[i].ts # NoTs
                             /\ pwr_in[i].dur # NoDur /\ pwr_in[i].dur > 0 }
KernelPeriod(i) == <<pwr_in[i].ts, pwr_in[i].ts + pwr_in[i].dur>>

Occurrences(seq, x) == Cardinality({ i \in 1..Len(seq) : seq[i] = x })

\* C23: after any sequence of events the context holds exactly one interval
\* (ts_a, ts_b, watts_a) for every pair of consecutive Power samples with ts_b > ts_a,
\* a sample at ts = 0 included, and exactly one period (ts, ts + dur) for every
\* Cmpt Exec X event with dur > 0, one starting at ts = 0 included; every event is
\* passed on unchanged.
C23_IntervalsAndPeriodsCollected ==
    /\ Len(power_periods) = Cardinality(RisingPairs)
    /\ \A i \in RisingPairs :
          Occurrences(power_periods, PairInterval(i))
             = Cardinality({ j \in RisingPairs : PairInterval(j) = PairInterval(i) })
    /\ Len(kernel_periods) = Cardinality(KernelsWithDur)
    /\ \A i \in KernelsWithDur :
          Occurrences(kernel_periods, KernelPeriod(i))
             = Cardinality({ j \in KernelsWithDur : KernelPeriod(j) = KernelPeriod(i) })
    /\ pwr_out = pwr_in

\* the same statement for traces in which no power sample and no kernel is at ts = 0
C23_CollectedAwayFromZero ==
    (\A i \in 1..Len(pwr_in) : pwr_in[i].ts # 0) => C23_IntervalsAndPeriodsCollected


(***************************************************************************)
(* Claims about the stage profile                                          *)
(***************************************************************************)
\* the indices (from 0) at or after idx at which the stage occurs in the profile
OccursFrom(stage, idx) == { i \in idx..(Len(sp_profile) - 1) : sp_profile[i + 1] = stage }

\* C24: fwd_find_stage(s) returns True if and only if s occurs in the list of enabled
\* stages at an index >= reg_idx; on True reg_idx becomes the index of the first such
\* occurrence, on False it is unchanged; over any sequence of calls reg_idx never
\* decreases.
C24_StagesFoundInProfileOrder ==
    [][ /\ reg_idx' >= reg_idx
        /\ sp_calls' # sp_calls
           => /\ sp_result' \in {"True", "False"}
              /\ sp_result' = "True" <=> OccursFrom(sp_stage', reg_idx) # {}
              /\ sp_result' = "True"
                 => /\ reg_idx' \in OccursFrom(sp_stage', reg_idx)
                    /\ \A i \in OccursFrom(sp_stage', reg_idx) : reg_idx' <= i
              /\ sp_result' = "False" => reg_idx' = reg_idx ]_vars

\* a stage that lies before the last one found has been refused
C24_Witness ==
    /\ sp_calls = 3
    /\ reg_idx = 2
    /\ sp_result = "False"
    /\ \E i \in 1..reg_idx : sp_profile[i] = sp_stage


(***************************************************************************)
(* Claims about the metadata of the refinement                             *)
(***************************************************************************)
\* the X events from which the refinement registers a process
Registering == { i \in 1..Len(ref_in) : ref_in[i].ph = "X" /\ ref_in[i].dialect # "TORCH" }

\* the pid under which the process of a registering event is registered
RegisteredPid(e) == IF is_acc_event(e) THEN e.rank ELSE e.pid + 1000
RegisteredPids == { RegisteredPid(ref_in[i]) : i \in Registering }

MetaNames == {"process_name", "process_label", "process_sort_index"}
MetaCount(name, pid) ==
    Cardinality({ i \in 1..Len(ref_meta) : ref_meta[i].name = name /\ ref_meta[i].pid = pid })

\* C25: over the whole run drain emits the process_name, process_label and
\* process_sort_index metadata exactly once for each host process and each accelerator
\* process registered from a processed event, and for no other pid; the first drain
\* returns them and every later drain returns an empty list.
C25_MetadataOncePerRegisteredProcess ==
    ref_drains >= 1
    => /\ \A pid \in RegisteredPids, name \in MetaNames : MetaCount(name, pid) = 1
       /\ \A i \in 1..Len(ref_meta) : ref_meta[i].pid \in RegisteredPids
       /\ ref_drains = 1 => ref_last = ref_meta
       /\ ref_drains >= 2 => ref_last = <<>>

\* the same statement for the runs of one dialect without a collective bandwidth counter
\* in which every device has events of its host and of its accelerator
C25_WhenHostAndAcceleratorSeen ==
    ( /\ \A i \in 1..Len(ref_in) : ref_in[i].dialect # "TORCH" /\ ref_in[i].pid # -1
      /\ \A d \in DOMAIN ref_queues : ref_queues[d].initialized = <<TRUE, TRUE>> )
    => C25_MetadataOncePerRegisteredProcess


(***************************************************************************)
(* Claims about the per-worker traces                                      *)
(***************************************************************************)
\* the worker id of an event with pid >= 0
WorkerOf(e) == e.pid % 1000
WorkerEvents == { i \in 1..Len(trace_events) : trace_events[i].pid >= 0 }
Workers == { WorkerOf(trace_events[i]) : i \in WorkerEvents }
EventsOfWorker(r) ==
    in_order(trace_events, { i \in WorkerEvents : WorkerOf(trace_events[i]) = r }, 1)

\* C26: flush builds one per-worker trace for every distinct rank present among the
\* exported events, the rank of an event being pid mod 1000 for pid >= 0, and the trace
\* of worker r contains exactly the events whose pid mod 1000 equals r, whether or not
\* events with pid -1 are present.
C26_OneTracePerWorker ==
    exp_phase = "flushed"
    => /\ DOMAIN traceview_by_rank = Workers
       /\ \A r \in Workers : traceview_by_rank[r].trace_events = EventsOfWorker(r)

\* the same statement for the runs whose ranks are 0..n-1 and that hold an event with
\* pid -1 whenever they hold more than one rank
C26_WithBandwidthCounter ==
    ( /\ \A r \in Workers : \A q \in 0..r : q \in Workers
      /\ Workers # {}
      /\ Cardinality(Workers) > 1 => \E i \in 1..Len(trace_events) : trace_events[i].pid = -1
      /\ Cardinality(Workers) = 1 => \A i \in 1..Len(trace_events) : trace_events[i].pid # -1 )
    => C26_OneTracePerWorker


(***************************************************************************)
(* Claims about the errors of the utilization stage                        *)
(***************************************************************************)
\* the call of compute_utilization in this step is on a kernel X event
AppliesToKernel ==
    /\ util_phase = "apply" /\ util_next' = util_next + 1
    /\ util_trace[util_next].ph = "X"
    /\ is_acc_event(util_trace[util_next]) /\ is_acc_kernel(util_trace[util_next])

\* the compiler log held no ideal-cycle table
NoTableInLog == DOMAIN rcuctx.kernel_cycles = {}

\* C27: compute_utilization never raises for a kernel X event: when the compiler log
\* contains no ideal-cycle table the stage still returns the event, without pt_active,
\* and accounts the anomaly in a named warning.
C27_KernelEventNeverRaises ==
    [][AppliesToKernel
       => /\ util_phase' = "apply"
          /\ NoTableInLog
             => /\ Len(UtilReturned) >= 1
                /\ UtilReturned[1].name = util_trace[util_next].name
                /\ UtilReturned[1].pt_active = NoFrac
                /\ \/ util_warnings'.kernel_nomatch > util_warnings.kernel_nomatch
                   \/ rcuctx'.kernel_other > rcuctx.kernel_other]_vars

\* the calls on kernel events whose job has a table with categories do not raise
C27_ReturnsWhenCategoriesKnown ==
    [][(AppliesToKernel
        /\ fprint_get(util_fingerprints[generate_fprint_jobhash(util_trace[util_next])])
              \in DOMAIN rcuctx.kernel_cat_map)
       => util_phase' = "apply"]_vars


(***************************************************************************)
(* Claims about the two classifiers                                        *)
(***************************************************************************)
\* get_event_class has run both classifiers on the FLEX event cls_event
BothClassified ==
    /\ cls_stage \in {"returned", "AssertionError"}
    /\ cls_event.hasName /\ cls_event.dialect = "FLEX"

\* C28: for every X event of the FLEX dialect classify_flex and classify_event return
\* the same EventClass, so that the equality assertion of get_event_class never fails.
C28_ClassifiersAgree ==
    BothClassified => (cls_flex = cls_generic /\ cls_stage = "returned")


(***************************************************************************)
(* Claims about the events the sort stage holds                            *)
(***************************************************************************)
\* the events the context holds in its queues
RECURSIVE QueuedEvents(_)
QueuedEvents(order) ==
    IF order = <<>> THEN <<>> ELSE sort_queues[Head(order)] \o QueuedEvents(Tail(order))

\* the events that have left the stage
SortOutput == sort_returned \o sort_drained \o sort_again

Times(seq, e) == Cardinality({ i \in 1..Len(seq) : seq[i] = e })

\* the event is passed on at once: its ph is not among the configured types or it has
\* no primary sort field
PassedAtOnce(e) ==
    \/ sort_ctx.event_types # NoneTypes /\ e.ph \notin sort_ctx.event_types
    \/ sort_ctx.sortkey[1][1] \notin DOMAIN e

\* C29: the sort stage neither loses nor duplicates events: every event passed to
\* sort_events is output exactly once, at once when its ph is not among the configured
\* types or it lacks the primary sort field, otherwise by the next drain; after a drain
\* the context holds no events and a second drain returns an empty list.
C29_NoEventLostOrDuplicated ==
    sort_phase \in {"sort", "drained"}
    => /\ \A i \in 1..Len(sort_in) :
             /\ Times(SortOutput \o QueuedEvents(sort_order), sort_in[i]) = 1
             /\ Times(sort_returned, sort_in[i]) = 1 <=> PassedAtOnce(sort_in[i])
       /\ Len(SortOutput) + Len(QueuedEvents(sort_order)) = Len(sort_in)
       /\ sort_phase = "drained"
          => /\ DOMAIN sort_queues = {}
             /\ \A i \in 1..Len(sort_in) : Times(SortOutput, sort_in[i]) = 1
             /\ sort_again = <<>>

\* three events of one queue and one passed on at once have all left the stage, and
\* the context has been drained a second time
C29_Witness ==
    /\ sort_phase = "drained"
    /\ sort_more >= 1
    /\ Len(sort_in) = 3
    /\ Len(sort_drained) = 2
    /\ Len(sort_returned) = 1
    /\ BucketOf(sort_drained[1]) = BucketOf(sort_drained[2])

------------------------------------------------------------------------------
(* Claims about a table whose fingerprint is already registered            *)

\* the line read by the step ends the table being parsed
FinishesTable ==
    /\ "ACTIVE_TABLE" \in ext_state.parse_mode
    /\ Len(ext_lines') = Len(ext_lines) + 1
    /\ ext_lines'[Len(ext_lines')].kind = "end"

\* the fingerprint of the table being parsed is the one of a registered table
AlreadyRegistered == fprint_get(ext_state.fprint) \in DOMAIN rcuctx.kernel_cycles

\* the registered table of a fingerprint: its cycles, its fingerprint object and its
\* category map
Registered(ctx, key) ==
    <<ctx.kernel_cycles[key], ctx.fingerprints[key], ctx.kernel_cat_map[key]>>

\* C30: when a finished table has the fingerprint of an already registered table, the
\* registered table is kept: its cycles, its fingerprint object and its category map
\* are the ones registered before, and the new table is discarded.
C30_PreviousTableKept ==
    [][(FinishesTable /\ AlreadyRegistered)
       => Registered(rcuctx', fprint_get(ext_state.fprint))
          = Registered(rcuctx, fprint_get(ext_state.fprint))]_vars

====
